---- MODULE Spec2Model ----
(***************************************************************************)
(* Model of the HTTP connection manager backend: the DataMapper (both the  *)
(* backend/lib and the merged_http2 versions), the HttpClient request      *)
(* outcome, the in-memory storage, and the three execute handlers          *)
(* (backend/api batch handler, merged_http2 backend-execute, express/pg).  *)
(*                                                                         *)
(* JavaScript values are tagged records [t |-> typeof-like tag, v |-> ..]. *)
(* A string is a sequence of symbols; "$" and "." are symbols of their own *)
(* and a name such as "user" is one symbol, so that startsWith, slice,     *)
(* split and filter are computed on the sequence as the code computes      *)
(* them on characters.  An object is the sequence of its own enumerable    *)
(* <<key, value>> entries in insertion order (the order Object.entries     *)
(* yields), an array is the sequence of its elements.                      *)
(***************************************************************************)
EXTENDS Integers, Sequences, FiniteSets, TLC

VARIABLES
  mSource,    \* DataMapper call: the sourceData / obj argument
  mMapping,   \* DataMapper call: the mapping argument
  mPath,      \* DataMapper call: the path argument of getValueByPath
  mFn,        \* DataMapper call: the function last called ("none" at first)
  mRet,       \* DataMapper call: what the last call returned or threw
  backend,    \* the deployed backend: "api", "merged" or "pg"
  reqMethod,  \* the HTTP method of the execute requests the backend receives
  reqId,      \* the connection id they name (in the URL or in the body)
  reqBody,    \* their JSON body
  connections, \* the connection store: id -> connection
  logs,       \* the log store
  calls,      \* the handler calls: call id -> the handler invocation's state
  hFn,        \* HttpClient call: the method last called ("none" at first)
  hArgs,      \* HttpClient call: its arguments and what the network does
  hOpts,      \* HttpClient call: the options of the fetch it issued
  hRet        \* HttpClient call: what it returned or threw

mvars == <<mSource, mMapping, mPath, mFn, mRet>>
ovars == <<backend, reqMethod, reqId, reqBody, connections, logs, calls>>
hvars == <<hFn, hArgs, hOpts, hRet>>
vars == <<mvars, ovars, hvars>>

----------------------------------------------------------------------------
(* JavaScript values *)

Undef == [t |-> "undefined"]
Null == [t |-> "null"]
Num(n) == [t |-> "number", v |-> n]
Bool(b) == [t |-> "boolean", v |-> b]
Str(s) == [t |-> "string", v |-> s]
Obj(entries) == [t |-> "object", v |-> entries]
Arr(elems) == [t |-> "array", v |-> elems]
Fn(name) == [t |-> "function", v |-> name]
Throw(name) == [t |-> "throw", v |-> name]

IsThrow(x) == x.t = "throw"

\* typeof x
TypeOf(x) ==
  IF x.t \in {"null", "array"} THEN "object" ELSE x.t

\* Boolean(x): the falsy values are undefined, null, 0, "" and false
Truthy(x) ==
  CASE x.t \in {"undefined", "null"} -> FALSE
    [] x.t = "number" -> x.v # 0
    [] x.t = "string" -> x.v # <<>>
    [] x.t = "boolean" -> x.v
    [] OTHER -> TRUE

\* a ?? b
Coalesce(a, b) == IF a.t \in {"undefined", "null"} THEN b ELSE a

\* the own keys of an object, as a set
KeySet(o) == {o.v[i][1] : i \in 1..Len(o.v)}

\* k in o, for a plain object
HasKey(o, k) == \E i \in 1..Len(o.v) : o.v[i][1] = k

\* o[k], for a plain object: undefined when the key is missing
Get(o, k) ==
  IF HasKey(o, k)
    THEN o.v[CHOOSE i \in 1..Len(o.v) : o.v[i][1] = k][2]
    ELSE Undef

\* o[k] = x: an existing key keeps its position, a new key is appended
Put(o, k, x) ==
  IF HasKey(o, k)
    THEN Obj([i \in 1..Len(o.v) |-> IF o.v[i][1] = k THEN <<k, x>> ELSE o.v[i]])
    ELSE Obj(Append(o.v, <<k, x>>))

\* the property key a value is converted to when used as obj[value]
ToKey(x) == IF x.t = "string" THEN x.v ELSE <<x.t>>

----------------------------------------------------------------------------
(* String primitives *)

\* s.startsWith(p)
startsWith(s, p) == Len(s) >= Len(p) /\ SubSeq(s, 1, Len(p)) = p

\* s.slice(n)
slice(s, n) == SubSeq(s, n + 1, Len(s))

RECURSIVE splitFrom(_, _, _)
\* the segments of s after its first i symbols, cur being the open segment
splitFrom(s, i, cur) ==
  IF i > Len(s) THEN <<cur>>
  ELSE IF s[i] = "." THEN <<cur>> \o splitFrom(s, i + 1, <<>>)
  ELSE splitFrom(s, i + 1, Append(cur, s[i]))

\* s.split('.'): "" gives [""], "a..b" gives ["a", "", "b"]
split(s) == splitFrom(s, 1, <<>>)

\* the segments kept as split yields them
filterNonEmpty_keepAll(segs) == segs

RECURSIVE filterNonEmpty(_)
\* segs.filter(Boolean), segs.filter(k => k.length > 0)
filterNonEmpty(segs) ==
  IF segs = <<>> THEN <<>>
  ELSE IF Head(segs) = <<>> THEN filterNonEmpty(Tail(segs))
  ELSE <<Head(segs)>> \o filterNonEmpty(Tail(segs))

RECURSIVE replaceFirst(_, _)
\* s.replace('$.', ''): removes the first occurrence of "$."
replaceFirst(s, p) ==
  IF Len(s) < Len(p) THEN s
  ELSE IF startsWith(s, p) THEN slice(s, Len(p))
  ELSE <<Head(s)>> \o replaceFirst(Tail(s), p)

PathPrefix == <<"$", ".">>

----------------------------------------------------------------------------
(* Transform functions a rule may carry (rule.transform) *)

\* rule.transform(value) for the functions the model draws from
ApplyFn(f, value) ==
  CASE f.v = "typeof" -> Str(<<TypeOf(value)>>)
    [] f.v = "isDefined" -> Bool(value.t # "undefined")
    [] f.v = "required" -> IF value.t = "undefined" THEN Throw("Error") ELSE value
    [] OTHER -> Throw("Error")

----------------------------------------------------------------------------
(* Property access *)

Digits == <<"0", "1", "2", "3", "4", "5", "6", "7", "8", "9">>

\* the index an array key denotes, 0 when the key is no single digit
ArrIndex(k) ==
  IF Len(k) = 1 /\ \E d \in 1..Len(Digits) : Digits[d] = k[1]
    THEN CHOOSE d \in 1..Len(Digits) : Digits[d] = k[1]
    ELSE 0

\* Object.entries(x): own enumerable entries of an object, array or string
OwnEntries(x) ==
  CASE x.t = "object" -> x.v
    [] x.t = "array" -> [i \in 1..Len(x.v) |-> <<<<Digits[i]>>, x.v[i]>>]
    [] x.t = "string" -> [i \in 1..Len(x.v) |-> <<<<Digits[i]>>, Str(<<x.v[i]>>)>>]
    [] OTHER -> <<>>

\* k in cur, for a value with typeof 'object' that is not null
In(k, cur) ==
  IF cur.t = "array"
    THEN k = <<"length">> \/ (ArrIndex(k) >= 1 /\ ArrIndex(k) <= Len(cur.v))
    ELSE HasKey(cur, k)

\* cur[k], for a value with typeof 'object' that is not null
Index(cur, k) ==
  IF cur.t = "array"
    THEN IF k = <<"length">> THEN Num(Len(cur.v))
         ELSE IF ArrIndex(k) >= 1 /\ ArrIndex(k) <= Len(cur.v) THEN cur.v[ArrIndex(k)]
         ELSE Undef
    ELSE Get(cur, k)

\* x.k: a TypeError on undefined and null, undefined on other primitives
Prop(x, k) ==
  CASE x.t \in {"undefined", "null"} -> Throw("TypeError")
    [] x.t \in {"object", "array"} -> Index(x, k)
    [] OTHER -> Undef

----------------------------------------------------------------------------
(* DataMapper of backend/lib/dataMapper.js *)

RECURSIVE walk_unguarded(_, _)
\* the loop descending with cur = cur[k] and no test of cur
walk_unguarded(cur, keys) ==
  IF keys = <<>> THEN cur
  ELSE IF IsThrow(Prop(cur, Head(keys))) THEN Prop(cur, Head(keys))
  ELSE walk_unguarded(Prop(cur, Head(keys)), Tail(keys))

RECURSIVE walk(_, _)
\* the loop of getValueByPath over the keys
walk(cur, keys) ==
  IF keys = <<>> THEN cur
  ELSE IF Truthy(cur) /\ TypeOf(cur) = "object" /\ In(Head(keys), cur)
    THEN walk(Index(cur, Head(keys)), Tail(keys))
    ELSE Undef

\* getValueByPath testing the path for a leading "$" only
getValueByPath_dollarOnly(obj, path) ==
  IF ~Truthy(path) \/ TypeOf(path) # "string" THEN Undef
  ELSE IF ~startsWith(path.v, <<"$">>) THEN path
  ELSE walk(obj, filterNonEmpty(split(slice(path.v, 2))))

getValueByPath(obj, path) ==
  IF ~Truthy(path) \/ TypeOf(path) # "string" THEN Undef
  ELSE IF ~startsWith(path.v, PathPrefix) THEN path
  ELSE walk(obj, filterNonEmpty(split(slice(path.v, 2))))

\* result[destField] = rule.transform ? rule.transform(value) : value
ruleValue(tf, value) ==
  IF ~Truthy(tf) THEN value
  ELSE IF tf.t = "function" THEN ApplyFn(tf, value)
  ELSE Throw("TypeError")

RECURSIVE advancedLoop_firstWins(_, _, _)
\* transformAdvanced keeping the first value written to a destField
advancedLoop_firstWins(sourceData, rules, result) ==
  IF rules = <<>> THEN result
  ELSE LET rule == Head(rules) IN
    IF rule.t \in {"undefined", "null"} THEN Throw("TypeError")
    ELSE LET srcPath == Coalesce(Prop(rule, <<"sourcePath">>), Prop(rule, <<"source">>))
             destField == Coalesce(Prop(rule, <<"destField">>), Prop(rule, <<"dest">>))
             value == getValueByPath(sourceData, srcPath)
             out == ruleValue(Prop(rule, <<"transform">>), value)
         IN IF IsThrow(out) THEN out
            ELSE advancedLoop_firstWins(sourceData, Tail(rules),
                   IF HasKey(result, ToKey(destField)) THEN result
                   ELSE Put(result, ToKey(destField), out))

RECURSIVE advancedLoop(_, _, _)
\* the loop of transformAdvanced over the rules, result being built so far
advancedLoop(sourceData, rules, result) ==
  IF rules = <<>> THEN result
  ELSE LET rule == Head(rules) IN
    IF rule.t \in {"undefined", "null"} THEN Throw("TypeError")
    ELSE LET srcPath == Coalesce(Prop(rule, <<"sourcePath">>), Prop(rule, <<"source">>))
             destField == Coalesce(Prop(rule, <<"destField">>), Prop(rule, <<"dest">>))
             value == getValueByPath(sourceData, srcPath)
             out == ruleValue(Prop(rule, <<"transform">>), value)
         IN IF IsThrow(out) THEN out
            ELSE advancedLoop(sourceData, Tail(rules), Put(result, ToKey(destField), out))

transformAdvanced(sourceData, mappingRules) ==
  advancedLoop(sourceData, mappingRules.v, Obj(<<>>))

RECURSIVE keyedLoop_skipUndefined(_, _, _)
\* transform leaving out the fields whose path resolves to undefined
keyedLoop_skipUndefined(sourceData, entries, result) ==
  IF entries = <<>> THEN result
  ELSE LET value == getValueByPath(sourceData, Head(entries)[2]) IN
    keyedLoop_skipUndefined(sourceData, Tail(entries),
      IF value = Undef THEN result ELSE Put(result, Head(entries)[1], value))

RECURSIVE keyedLoop(_, _, _)
\* the loop of transform over Object.entries(mapping)
keyedLoop(sourceData, entries, result) ==
  IF entries = <<>> THEN result
  ELSE keyedLoop(sourceData, Tail(entries),
                 Put(result, Head(entries)[1], getValueByPath(sourceData, Head(entries)[2])))

transform(sourceData, mapping) ==
  IF ~Truthy(mapping) THEN sourceData
  ELSE IF mapping.t # "array" /\ TypeOf(mapping) = "object"
    THEN IF Len(OwnEntries(mapping)) = 0 THEN sourceData
         ELSE keyedLoop(sourceData, OwnEntries(mapping), Obj(<<>>))
  ELSE IF mapping.t = "array" THEN transformAdvanced(sourceData, mapping)
  ELSE sourceData

----------------------------------------------------------------------------
(* DataMapper of merged_http2/dataMapper.js *)

RECURSIVE m2_walk(_, _)
\* the loop of getValueByPath over the keys
m2_walk(value, keys) ==
  IF keys = <<>> THEN value
  ELSE IF Truthy(value) /\ TypeOf(value) = "object"
    THEN m2_walk(Index(value, Head(keys)), Tail(keys))
    ELSE Undef

\* path.startsWith is no function unless path is a string
m2_getValueByPath(obj, path) ==
  IF path.t # "string" THEN Throw("TypeError")
  ELSE IF ~startsWith(path.v, PathPrefix) THEN path
  ELSE m2_walk(obj, filterNonEmpty(split(replaceFirst(path.v, PathPrefix))))

RECURSIVE m2_keyedLoop(_, _, _)
m2_keyedLoop(sourceData, entries, result) ==
  IF entries = <<>> THEN result
  ELSE LET value == m2_getValueByPath(sourceData, Head(entries)[2]) IN
    IF IsThrow(value) THEN value
    ELSE m2_keyedLoop(sourceData, Tail(entries), Put(result, Head(entries)[1], value))

m2_transform(sourceData, mapping) ==
  IF ~Truthy(mapping) \/ Len(OwnEntries(mapping)) = 0 THEN sourceData
  ELSE m2_keyedLoop(sourceData, OwnEntries(mapping), Obj(<<>>))

RECURSIVE m2_advancedLoop(_, _, _)
m2_advancedLoop(sourceData, rules, result) ==
  IF rules = <<>> THEN result
  ELSE LET rule == Head(rules)
           srcPath == Prop(rule, <<"source">>)
           value == IF IsThrow(srcPath) THEN srcPath ELSE m2_getValueByPath(sourceData, srcPath)
           out == IF IsThrow(value) THEN value
                  ELSE ruleValue(Prop(rule, <<"transform">>), value)
       IN IF IsThrow(out) THEN out
          ELSE m2_advancedLoop(sourceData, Tail(rules), Put(result, ToKey(Prop(rule, <<"dest">>)), out))

m2_transformAdvanced(sourceData, mappingRules) ==
  m2_advancedLoop(sourceData, mappingRules.v, Obj(<<>>))

----------------------------------------------------------------------------
(* The writes of transform: both versions assign to properties of result    *)
(* only, and result is bound by `const result = {}`                         *)

\* result bound to the source object itself (mapping in place)
resultObject_inPlace(sourceData) == [ref |-> "sourceData", val |-> sourceData]

\* const result = {}: a fresh object, whatever the source is
resultObject(sourceData) == [ref |-> "fresh", val |-> Obj(<<>>)]

\* the value of the object sourceData refers to once fn(sourceData, mapping)
\* has returned or thrown: the writes result[destField] = ... reach it only
\* when result is that object
sourceAfterTransform(fn, sourceData, mapping) ==
  LET result == resultObject(sourceData)
      writes == /\ Truthy(mapping)
                /\ Len(OwnEntries(mapping)) > 0
                /\ TypeOf(mapping) = "object"
      written ==
        IF mapping.t = "array" /\ fn = "transform"
          THEN advancedLoop(sourceData, mapping.v, result.val)
        ELSE IF fn = "transform"
          THEN keyedLoop(sourceData, OwnEntries(mapping), result.val)
        ELSE m2_keyedLoop(sourceData, OwnEntries(mapping), result.val)
  IN IF result.ref = "sourceData" /\ sourceData.t = "object" /\ writes
       THEN (IF IsThrow(written) THEN sourceData ELSE written)
       ELSE sourceData

----------------------------------------------------------------------------
(* Inputs of the DataMapper calls *)

MaxPathLen == 4

PathAlphabet == {"$", ".", "a", "b"}

\* every string over the alphabet of at most n symbols
StringsUpTo(n) == UNION {[1..k -> PathAlphabet] : k \in 0..n}

S(name) == Str(<<name>>)

\* "$.k1.k2...": the path string with the given keys
RECURSIVE dotted(_)
dotted(keys) ==
  IF keys = <<>> THEN <<>>
  ELSE IF Len(keys) = 1 THEN <<keys[1]>>
  ELSE <<keys[1], ".">> \o dotted(Tail(keys))

P(keys) == Str(PathPrefix \o dotted(keys))

SrcAB == Obj(<< <<<<"a">>, Num(1)>>, <<<<"b">>, Num(2)>> >>)
SrcUser ==
  Obj(<< <<<<"user">>, Obj(<< <<<<"name">>, S("Ava")>>, <<<<"email">>, S("a@x.com")>> >>)>> >>)
SrcDeep == Obj(<< <<<<"a">>, Obj(<< <<<<"b">>, Obj(<< <<<<"c">>, Num(7)>> >>)>> >>)>> >>)
SrcHole == Obj(<< <<<<"a">>, Obj(<< <<<<"b">>, Obj(<<>>)>> >>)>> >>)
SrcNulls == Obj(<< <<<<"a">>, Null>>, <<<<"b">>, Num(0)>> >>)
SrcArr == Obj(<< <<<<"a">>, Arr(<<Num(1), Num(2)>>)>> >>)

Sources ==
  {SrcAB, SrcUser, SrcDeep, SrcHole, SrcNulls, SrcArr, Obj(<<>>), Num(5), S("lit"), Null, Undef}

Paths ==
  {Str(s) : s \in StringsUpTo(MaxPathLen)}
    \cup {P(<<"a", "b", "c">>), P(<<"a", "", "b">>), P(<<"a", "b", "">>),
          P(<<"user", "email">>), P(<<"user", "name">>), P(<<"a", "length">>),
          P(<<"a", "1">>), S("lit"), Num(5), Num(0), Null, Undef}

Rule(sourcePath, destField) ==
  Obj(<< <<<<"sourcePath">>, sourcePath>>, <<<<"destField">>, destField>> >>)
RuleFn(sourcePath, destField, fn) ==
  Obj(<< <<<<"sourcePath">>, sourcePath>>, <<<<"destField">>, destField>>,
         <<<<"transform">>, Fn(fn)>> >>)
\* the alias field names of merged_http2
RuleOld(source, dest) ==
  Obj(<< <<<<"source">>, source>>, <<<<"dest">>, dest>> >>)
RuleOldFn(source, dest, fn) ==
  Obj(<< <<<<"source">>, source>>, <<<<"dest">>, dest>>, <<<<"transform">>, Fn(fn)>> >>)

KeyedUser ==
  Obj(<< <<<<"recipient_email">>, P(<<"user", "email">>)>>,
         <<<<"recipient_name">>, P(<<"user", "name">>)>> >>)
KeyedMixed == Obj(<< <<<<"x">>, P(<<"a">>)>>, <<<<"y">>, S("lit")>>, <<<<"z">>, P(<<"zz">>)>> >>)
KeyedDeep == Obj(<< <<<<"x">>, P(<<"a", "b", "c">>)>>, <<<<"y">>, P(<<"a", "", "b">>)>> >>)
KeyedNum == Obj(<< <<<<"x">>, Num(5)>>, <<<<"y">>, P(<<"b">>)>> >>)
KeyedEmptyPath == Obj(<< <<<<"x">>, Str(<<>>)>> >>)

KeyedMappings == {KeyedUser, KeyedMixed, KeyedDeep, KeyedNum, KeyedEmptyPath}

RulesLastWins == Arr(<<Rule(P(<<"a">>), S("x")), Rule(P(<<"b">>), S("x"))>>)
RulesUser ==
  Arr(<<Rule(P(<<"user", "email">>), S("recipient_email")),
        Rule(P(<<"user", "name">>), S("recipient_name"))>>)
RulesFn ==
  Arr(<<RuleFn(P(<<"a">>), S("x"), "isDefined"), Rule(P(<<"zz">>), S("y")),
        RuleFn(P(<<"b">>), S("x"), "typeof")>>)
RulesFnFirst ==
  Arr(<<Rule(P(<<"a">>), S("x")), RuleFn(P(<<"b">>), S("y"), "typeof"),
        Rule(S("lit"), S("y"))>>)
RulesOld == Arr(<<RuleOld(P(<<"a">>), S("x")), RuleOldFn(P(<<"b">>), S("x"), "typeof")>>)
RulesThrow == Arr(<<Rule(P(<<"a">>), S("x")), RuleFn(P(<<"b">>), S("y"), "throws")>>)
RulesNull == Arr(<<Rule(P(<<"a">>), S("x")), Null>>)
RulesNotFn ==
  Arr(<<Obj(<< <<<<"sourcePath">>, P(<<"a">>)>>, <<<<"destField">>, S("x")>>,
               <<<<"transform">>, S("upper")>> >>)>>)

RuleLists ==
  {RulesLastWins, RulesUser, RulesFn, RulesFnFirst, RulesOld, RulesThrow, RulesNull, RulesNotFn}

\* absent or empty mappings, and mappings that are neither an object nor an array
EmptyMappings == {Undef, Null, Obj(<<>>), Arr(<<>>)}

Mappings == EmptyMappings \cup KeyedMappings \cup RuleLists \cup {S("lit"), Num(5), Num(0)}

----------------------------------------------------------------------------
(* DataMapper calls: one call per behaviour, on a source drawn at the start *)

\* no HttpClient call is made on its own
NoHttpCall ==
  /\ hFn = "idle"
  /\ hArgs = Undef
  /\ hOpts = Undef
  /\ hRet = Undef

\* no backend is deployed while the DataMapper is exercised on its own
NoBackend ==
  /\ backend = "none"
  /\ reqMethod = "none"
  /\ reqId = Undef
  /\ reqBody = Undef
  /\ connections = <<>>
  /\ logs = <<>>
  /\ calls = <<>>

MapInit ==
  /\ mSource \in Sources
  /\ mMapping = Undef
  /\ mPath = Undef
  /\ mFn = "none"
  /\ mRet = Undef
  /\ NoBackend
  /\ NoHttpCall

Call_transform ==
  /\ mFn = "none"
  /\ \E m \in Mappings :
       /\ mMapping' = m
       /\ mRet' = transform(mSource, m)
       /\ mSource' = sourceAfterTransform("transform", mSource, m)
  /\ mFn' = "transform"
  /\ UNCHANGED <<mPath, ovars, hvars>>

Call_transformAdvanced ==
  /\ mFn = "none"
  /\ \E m \in RuleLists \cup {Arr(<<>>)} :
       /\ mMapping' = m
       /\ mRet' = transformAdvanced(mSource, m)
  /\ mFn' = "transformAdvanced"
  /\ UNCHANGED <<mSource, mPath, ovars, hvars>>

Call_getValueByPath ==
  /\ mFn = "none"
  /\ \E p \in Paths :
       /\ mPath' = p
       /\ mRet' = getValueByPath(mSource, p)
  /\ mFn' = "getValueByPath"
  /\ UNCHANGED <<mSource, mMapping, ovars, hvars>>

Call_m2_transform ==
  /\ mFn = "none"
  /\ \E m \in Mappings :
       /\ mMapping' = m
       /\ mRet' = m2_transform(mSource, m)
       /\ mSource' = sourceAfterTransform("m2_transform", mSource, m)
  /\ mFn' = "m2_transform"
  /\ UNCHANGED <<mPath, ovars, hvars>>

Call_m2_transformAdvanced ==
  /\ mFn = "none"
  /\ \E m \in RuleLists \cup {Arr(<<>>)} :
       /\ mMapping' = m
       /\ mRet' = m2_transformAdvanced(mSource, m)
  /\ mFn' = "m2_transformAdvanced"
  /\ UNCHANGED <<mSource, mPath, ovars, hvars>>

Call_m2_getValueByPath ==
  /\ mFn = "none"
  /\ \E p \in Paths :
       /\ mPath' = p
       /\ mRet' = m2_getValueByPath(mSource, p)
  /\ mFn' = "m2_getValueByPath"
  /\ UNCHANGED <<mSource, mMapping, ovars, hvars>>

MapNext ==
  \/ Call_transform
  \/ Call_transformAdvanced
  \/ Call_getValueByPath
  \/ Call_m2_transform
  \/ Call_m2_transformAdvanced
  \/ Call_m2_getValueByPath

SpecMap == MapInit /\ [][MapNext]_vars

----------------------------------------------------------------------------
(* Properties of the DataMapper *)

\* C7: for every non-null source x and every absent or empty mapping (no
\* mapping, empty keyed map, empty rule list) transform returns x itself.
C7_IdentityOnEmptyMapping ==
  (/\ mFn \in {"transform", "m2_transform"}
   /\ mMapping \in EmptyMappings
   /\ mSource \notin {Null, Undef})
    => mRet = mSource

\* the keys of a keyed mapping, and the path each names
MappingKeys(m) == KeySet(m)

\* C8: for a non-empty keyed mapping m, transform(s, m) is an object whose
\* key set is exactly the key set of m and whose value at each key k is
\* getValueByPath(s, m[k]); the user name/email example yields exactly the
\* two recipient fields.
C8_KeyedMappingExact ==
  (/\ mMapping.t = "object"
   /\ Len(mMapping.v) > 0
   /\ \/ mFn = "transform"
      \/ /\ mFn = "m2_transform"
         /\ \A k \in MappingKeys(mMapping) : Get(mMapping, k).t = "string")
    => /\ mRet.t = "object"
       /\ KeySet(mRet) = MappingKeys(mMapping)
       /\ Len(mRet.v) = Cardinality(MappingKeys(mMapping))
       /\ \A k \in MappingKeys(mMapping) :
            Get(mRet, k) = IF mFn = "transform"
                             THEN getValueByPath(mSource, Get(mMapping, k))
                             ELSE m2_getValueByPath(mSource, Get(mMapping, k))
       /\ (mSource = SrcUser /\ mMapping = KeyedUser)
            => mRet = Obj(<< <<<<"recipient_email">>, S("a@x.com")>>,
                             <<<<"recipient_name">>, S("Ava")>> >>)

C8_Witness ==
  /\ mFn = "transform"
  /\ mSource = SrcUser
  /\ mMapping = KeyedUser
  /\ Get(mRet, <<"recipient_email">>) = S("a@x.com")
  /\ Get(mRet, <<"recipient_name">>) = S("Ava")

\* the destField and the sourcePath a rule names, under the field names the
\* called version reads
RuleDest(fn, rule) ==
  IF fn = "m2_transformAdvanced" THEN ToKey(Prop(rule, <<"dest">>))
  ELSE ToKey(Coalesce(Prop(rule, <<"destField">>), Prop(rule, <<"dest">>)))

RuleSource(fn, rule) ==
  IF fn = "m2_transformAdvanced" THEN Prop(rule, <<"source">>)
  ELSE Coalesce(Prop(rule, <<"sourcePath">>), Prop(rule, <<"source">>))

RuleResolved(fn, rule) ==
  IF fn = "m2_transformAdvanced" THEN m2_getValueByPath(mSource, RuleSource(fn, rule))
  ELSE getValueByPath(mSource, RuleSource(fn, rule))

\* the index of the last rule of the list that names the destField of rule i
LastRuleFor(fn, rules, i) ==
  CHOOSE j \in 1..Len(rules) :
    /\ RuleDest(fn, rules[j]) = RuleDest(fn, rules[i])
    /\ \A h \in 1..Len(rules) : RuleDest(fn, rules[h]) = RuleDest(fn, rules[i]) => h <= j

C10_LiteralAnyString ==
  (/\ mFn \in {"getValueByPath", "m2_getValueByPath"}
   /\ mPath.t = "string"
   /\ ~startsWith(mPath.v, PathPrefix))
    => mRet = mPath

\* C10 amended: for every value v and every non-empty string s that does not
\* start with "$.", getValueByPath(v, s) returns s.
C10_LiteralNonEmptyString ==
  (/\ mFn \in {"getValueByPath", "m2_getValueByPath"}
   /\ mPath.t = "string"
   /\ mPath.v # <<>>
   /\ ~startsWith(mPath.v, PathPrefix))
    => mRet = mPath

C10_Witness ==
  /\ mFn = "getValueByPath"
  /\ mSource = SrcAB
  /\ mPath = Str(<<"$", "a">>)
  /\ mRet = mPath

----------------------------------------------------------------------------
(* The network, and HttpClient.request of backend/lib/dataMapper.js *)

\* what the network does with one fetch: a response, a rejection (host
\* unreachable), nothing at all, or a response that only arrives after the
\* caller's timeout has elapsed
Response(status, body) == [kind |-> "response", status |-> status, body |-> body]
NetError == [kind |-> "error"]
NetHang == [kind |-> "hang"]
Late(status, body) == [kind |-> "late", status |-> status, body |-> body]

\* a response body that is declared application/json and is no JSON
BadBody == [t |-> "badjson"]

\* res.ok
IsOk(status) == status >= 200 /\ status <= 299

\* an Error object carrying a status and a body
HttpError(message, status, body) ==
  [t |-> "throw", v |-> message, status |-> Num(status), body |-> body]

\* JSON.stringify(data)
stringify(data) == [t |-> "json", v |-> data]

RECURSIVE putAll(_, _)
\* { ...o, ...entries }
putAll(o, entries) ==
  IF entries = <<>> THEN o
  ELSE putAll(Put(o, Head(entries)[1], Head(entries)[2]), Tail(entries))

\* the spread the other way round: { ...headers, 'Content-Type': 'application/json' }
mergeHeaders_defaultWins(headers) ==
  putAll(headers, << <<<<"Content-Type">>, S("application/json")>> >>)

\* { 'Content-Type': 'application/json', ...headers }
mergeHeaders(headers) ==
  putAll(Obj(<< <<<<"Content-Type">>, S("application/json")>> >>), OwnEntries(headers))

WriteMethods == {"POST", "PUT", "PATCH", "DELETE"}

\* request setting opts.body whatever the method is
sendsBody_anyMethod(method, data) == Truthy(data)

\* whether request sets opts.body
sendsBody(method, data) == Truthy(data) /\ method \in WriteMethods

\* the options request hands to fetch; body is undefined when none is set
requestOptions(method, headers, data) ==
  [method |-> method, headers |-> mergeHeaders(headers),
   body |-> IF sendsBody(method, data) THEN stringify(data) ELSE Undef]

\* request({url, method, data}): the object it returns or the error it throws;
\* the timer aborts a fetch that has not answered when the timeout elapses
request(method, data, net) ==
  CASE net.kind \in {"hang", "late"} -> Throw("Request timeout")
    [] net.kind = "error" -> Throw("fetch failed")
    [] OTHER ->
         IF net.body = BadBody THEN Throw("SyntaxError")
         ELSE IF ~IsOk(net.status) THEN HttpError("HTTP error", net.status, net.body)
         ELSE Obj(<< <<<<"status">>, Num(net.status)>>, <<<<"headers">>, Obj(<<>>)>>,
                     <<<<"body">>, net.body>> >>)

----------------------------------------------------------------------------
(* backend/lib/storage.js *)

LogCap == 500

Now == "now"

\* storage.connections.get(id)
getConnection(id) == IF id \in DOMAIN connections THEN connections[id] ELSE Undef

\* { ...a, ...b } on records
Spread2(a, b) ==
  [f \in DOMAIN a \cup DOMAIN b |-> IF f \in DOMAIN b THEN b[f] ELSE a[f]]

\* the connection map after updateConnection(id, patch)
updateConnection(id, patch) ==
  IF id \notin DOMAIN connections THEN connections
  ELSE [connections EXCEPT ![id] = Spread2(connections[id], patch)]

\* a log that is never cut
keepNewest_noCap(list) == list

\* if (storage.logs.length > 500) storage.logs = storage.logs.slice(0, 500)
keepNewest(list) == IF Len(list) > LogCap THEN SubSeq(list, 1, LogCap) ELSE list

\* logEvent cutting the list at the wrong end: slice(1, LogCap + 1)
logEvent_dropNewest(entry) ==
  LET withMeta == Spread2([timestamp |-> Now], entry)
      unshifted == <<withMeta>> \o logs
  IN IF Len(unshifted) > LogCap THEN SubSeq(unshifted, 2, LogCap + 1) ELSE unshifted

\* storage.logs after logEvent(entry): newest first, the last LogCap kept
logEvent(entry) ==
  LET withMeta == Spread2([timestamp |-> Now], entry)
      unshifted == <<withMeta>> \o logs
  IN keepNewest(unshifted)

----------------------------------------------------------------------------
(* validateExecutePayload of backend/lib/dataMapper.js *)

\* validateExecutePayload accepting any records value
validateExecutePayload_anyRecords(payload) ==
  IF ~Truthy(payload) THEN <<"Payload required">>
  ELSE IF ~Truthy(Prop(payload, <<"connectionId">>)) THEN <<"connectionId required">>
  ELSE <<>>

validateExecutePayload(payload) ==
  IF ~Truthy(payload) THEN <<"Payload required">>
  ELSE (IF ~Truthy(Prop(payload, <<"connectionId">>)) THEN <<"connectionId required">> ELSE <<>>)
       \o (IF Prop(payload, <<"records">>).t # "array"
             THEN <<"records must be an array">> ELSE <<>>)

----------------------------------------------------------------------------
(* Execute calls *)

\* a handler's HTTP response
Reply(status, body, error) == [status |-> status, body |-> body, error |-> error]
NoReply == Reply(0, "none", "")

\* one stage event of the record a call is working on; status is the HTTP
\* status the endpoint answered, 0 when there was no response
Ev(rec, stage, ok, status) == [rec |-> rec, stage |-> stage, ok |-> ok, status |-> status]

IdleCall ==
  [pc |-> "idle", conn |-> Undef, items |-> <<>>, idx |-> 0, source |-> Undef,
   mapped |-> Undef, results |-> <<>>, trace |-> <<>>, res |-> NoReply]

\* the connection id of a request, "" when it names none
IdOf(id) == IF id.t = "string" /\ Len(id.v) = 1 THEN id.v[1] ELSE ""

\* the method named by a connection field, with its default
MethodOr(m, default) == IF Truthy(m) THEN m.v[1] ELSE default

\* a loop that walks the array from its last item to its first
iterate_lastFirst(value) ==
  CASE value.t = "array" -> Arr([i \in 1..Len(value.v) |-> value.v[Len(value.v) + 1 - i]])
    [] value.t = "string" -> Arr([i \in 1..Len(value.v) |-> Str(<<value.v[i]>>)])
    [] OTHER -> Throw("TypeError")

\* for (const x of value): the items iterated, as an array, or the TypeError thrown
iterate(value) ==
  CASE value.t = "array" -> Arr(value.v)
    [] value.t = "string" -> Arr([i \in 1..Len(value.v) |-> Str(<<value.v[i]>>)])
    [] OTHER -> Throw("TypeError")

\* { ...body, connectionId: id }
withConnectionId(body, id) ==
  Put(Obj(OwnEntries(body)), <<"connectionId">>, id)

BadJson == [t |-> "badjson"]

\* JSON.parse of the request body
parseBody(body) == IF body = BadJson THEN Throw("SyntaxError") ELSE body

----------------------------------------------------------------------------
(* backend/api/connections-[id]-execute.js: the batch handler, on storage.js *)

NCalls == 2

CallIds == 1..NCalls

\* what the destination endpoint may do with a request
DestOutcomes == {Response(200, S("ok")), Response(500, S("fail")), NetError, NetHang}

\* the catch block of the handler: respond 500 with the error's message
api_catch(call, e) ==
  [call EXCEPT !.pc = "done", !.res = Reply(500, "error", e.v)]

\* the loop from the record at call.idx up to the await of its request, or
\* the response after the last record; this variant issues the request
\* whether or not the mapping threw
api_loop_ignoreMappingError(call) ==
  IF call.idx > Len(call.items)
    THEN [call EXCEPT !.pc = "done", !.res = Reply(200, "results", "")]
    ELSE LET record == call.items[call.idx]
             mappings == IF Truthy(call.conn.mappings) THEN call.conn.mappings ELSE Obj(<<>>)
             mapped == transform(record, mappings)
         IN [call EXCEPT !.pc = "dest", !.mapped = mapped,
                         !.trace = @ \o <<Ev(call.idx, "map", ~IsThrow(mapped), 0),
                                          Ev(call.idx, "dest_req", TRUE, 0)>>]

\* the loop from the record at call.idx up to the await of its request, or
\* the response after the last record
api_loop(call) ==
  IF call.idx > Len(call.items)
    THEN [call EXCEPT !.pc = "done", !.res = Reply(200, "results", "")]
    ELSE LET record == call.items[call.idx]
             mappings == IF Truthy(call.conn.mappings) THEN call.conn.mappings ELSE Obj(<<>>)
             mapped == transform(record, mappings)
         IN IF IsThrow(mapped)
              THEN api_catch([call EXCEPT !.trace = Append(@, Ev(call.idx, "map", FALSE, 0))],
                             mapped)
              ELSE [call EXCEPT !.pc = "dest", !.mapped = mapped,
                                !.trace = @ \o <<Ev(call.idx, "map", TRUE, 0),
                                                 Ev(call.idx, "dest_req", TRUE, 0)>>]

\* the handler from the parsed body to the first await of the loop
api_afterBody(call, id, rawBody) ==
  LET body == parseBody(rawBody) IN
  IF IsThrow(body) THEN api_catch(call, body)
  ELSE LET errors == validateExecutePayload(withConnectionId(body, id)) IN
    IF Len(errors) > 0
      THEN [call EXCEPT !.pc = "done", !.res = Reply(400, "errors", errors[1])]
    ELSE LET records == Prop(body, <<"records">>)
             items == IF IsThrow(records) THEN records ELSE iterate(records)
         IN IF IsThrow(items) THEN api_catch(call, items)
            ELSE api_loop([call EXCEPT !.items = items.v, !.idx = 1])

\* POST check and connection lookup, up to the await that reads the body
api_Start(c) ==
  /\ backend = "api"
  /\ calls[c].pc = "idle"
  /\ LET conn == getConnection(IdOf(reqId)) IN
       calls' = [calls EXCEPT ![c] =
         IF reqMethod # "POST" THEN [@ EXCEPT !.pc = "done", !.res = Reply(405, "empty", "")]
         ELSE IF conn = Undef
           THEN [@ EXCEPT !.pc = "done", !.res = Reply(404, "error", "Connection not found")]
         ELSE [@ EXCEPT !.pc = "body", !.conn = conn]]
  /\ UNCHANGED <<backend, reqMethod, reqId, reqBody, connections, logs, mvars, hvars>>

\* the body has been read: parse, validate, start the loop
api_Body(c) ==
  /\ backend = "api"
  /\ calls[c].pc = "body"
  /\ calls' = [calls EXCEPT ![c] = api_afterBody(@, reqId, reqBody)]
  /\ UNCHANGED <<backend, reqMethod, reqId, reqBody, connections, logs, mvars, hvars>>

\* the destination request of the current record settles
api_DestResp(c) ==
  /\ backend = "api"
  /\ calls[c].pc = "dest"
  /\ \E net \in DestOutcomes :
       LET call == calls[c]
           out == request(MethodOr(call.conn.method, "POST"), call.mapped, net)
           status == IF net.kind = "response" THEN net.status ELSE 0
       IN IF IsThrow(out)
            THEN /\ calls' = [calls EXCEPT ![c] =
                      api_catch([call EXCEPT !.trace = Append(@, Ev(call.idx, "dest", FALSE, status))],
                                out)]
                 /\ logs' = logs
            ELSE /\ calls' = [calls EXCEPT ![c] =
                      api_loop([call EXCEPT
                        !.results = Append(@, [input |-> call.items[call.idx],
                                               mapped |-> call.mapped,
                                               responseStatus |-> Prop(out, <<"status">>),
                                               responseBody |-> Prop(out, <<"body">>)]),
                        !.trace = Append(@, Ev(call.idx, "dest", TRUE, status)),
                        !.idx = @ + 1])]
                 /\ logs' = logEvent([event |-> "execute", connectionId |-> reqId,
                                      status |-> Prop(out, <<"status">>),
                                      mapped |-> call.mapped])
  /\ UNCHANGED <<backend, reqMethod, reqId, reqBody, connections, mvars, hvars>>

----------------------------------------------------------------------------
(* merged_http2: HttpClient.request of httpClient.js and the GoogleSheets   *)
(* store the execute handler is written against                            *)

\* the options request hands to fetch: a body for POST, PUT and PATCH only
m2_requestOptions(method, headers, data) ==
  [method |-> method, headers |-> mergeHeaders(headers),
   body |-> IF Truthy(data) /\ method \in {"POST", "PUT", "PATCH"}
              THEN stringify(data) ELSE Undef]

\* request({url, method, data}): every failure, a non-2xx answer included,
\* leaves through the catch block as a new Error without status that holds
\* the failure as originalError; no timer aborts the fetch, so a late
\* response is a response, and a fetch that never answers fails on its own
m2_request(method, data, net) ==
  LET inner ==
        CASE net.kind \in {"hang", "error"} -> Throw("fetch failed")
          [] net.body = BadBody -> Throw("SyntaxError")
          [] ~IsOk(net.status) -> HttpError("HTTP error", net.status, net.body)
          [] OTHER ->
               Obj(<< <<<<"status">>, Num(net.status)>>, <<<<"statusText">>, S("OK")>>,
                      <<<<"headers">>, Obj(<<>>)>>, <<<<"body">>, net.body>>,
                      <<<<"data">>, net.body>> >>)
  IN IF IsThrow(inner)
       THEN [t |-> "throw", v |-> "Request failed", originalError |-> inner]
       ELSE inner

\* ConnectionStore.get(id): the stored connection as it is now, or null
sheets_getConnection(id) == IF id \in DOMAIN connections THEN connections[id] ELSE Null

\* ConnectionStore.update(id, patch): the connection map afterwards
sheets_updateConnection(id, patch) ==
  IF id \notin DOMAIN connections THEN connections
  ELSE [connections EXCEPT ![id] = Spread2(connections[id], patch)]

\* Logger.append(entry): the log afterwards
sheets_logEvent(entry) == Append(logs, entry)

\* what the source endpoint may do with a request
SourceOutcomes == {Response(200, SrcAB), Response(500, S("fail")), NetError, NetHang}

\* x?.k
OptProp(x, k) == IF x.t \in {"undefined", "null"} THEN Undef ELSE Prop(x, k)

----------------------------------------------------------------------------
(* merged_http2/backend-execute.js: single execution, source -> map -> dest *)

\* STEP 2 and the start of STEP 3 once the source answered
merged_afterSource(call, sourceResponse) ==
  LET mappedData == m2_transform(sourceResponse, call.conn.mapping) IN
    IF IsThrow(mappedData)
      THEN [call EXCEPT !.pc = "respond", !.source = sourceResponse, !.mapped = mappedData,
                        !.res = Reply(400, "error", "Data mapping failed"),
                        !.trace = @ \o <<Ev(1, "source", TRUE, 200), Ev(1, "map", FALSE, 0)>>]
      ELSE [call EXCEPT !.pc = "dest", !.source = sourceResponse, !.mapped = mappedData,
                        !.trace = @ \o <<Ev(1, "source", TRUE, 200), Ev(1, "map", TRUE, 0),
                                         Ev(1, "dest_req", TRUE, 0)>>]

\* method and connectionId checks, up to the await of sheets.getConnection
merged_Start(c) ==
  /\ backend = "merged"
  /\ calls[c].pc = "idle"
  /\ LET connectionId == Prop(reqBody, <<"connectionId">>) IN
       calls' = [calls EXCEPT ![c] =
         IF reqMethod # "POST"
           THEN [@ EXCEPT !.pc = "done", !.res = Reply(405, "error", "Method not allowed")]
         ELSE IF IsThrow(connectionId)
           THEN [@ EXCEPT !.pc = "done", !.res = Reply(500, "error", connectionId.v)]
         ELSE IF ~Truthy(connectionId)
           THEN [@ EXCEPT !.pc = "done", !.res = Reply(400, "error", "Connection ID required")]
         ELSE [@ EXCEPT !.pc = "getconn"]]
  /\ UNCHANGED <<backend, reqMethod, reqId, reqBody, connections, logs, mvars, hvars>>

\* the store answered: 404, or STEP 1 up to the await of the source request
merged_GotConn(c) ==
  /\ backend = "merged"
  /\ calls[c].pc = "getconn"
  /\ LET connection == sheets_getConnection(IdOf(Prop(reqBody, <<"connectionId">>))) IN
       calls' = [calls EXCEPT ![c] =
         IF connection = Null
           THEN [@ EXCEPT !.pc = "done", !.res = Reply(404, "error", "Connection not found")]
           ELSE [@ EXCEPT !.pc = "source", !.conn = connection,
                          !.trace = Append(@, Ev(1, "source_req", TRUE, 0))]]
  /\ UNCHANGED <<backend, reqMethod, reqId, reqBody, connections, logs, mvars, hvars>>

\* the source request settles
merged_SourceResp(c) ==
  /\ backend = "merged"
  /\ calls[c].pc = "source"
  /\ \E net \in SourceOutcomes :
       LET call == calls[c]
           sourceData == Prop(reqBody, <<"sourceData">>)
           data == IF Truthy(OptProp(sourceData, <<"body">>))
                     THEN OptProp(sourceData, <<"body">>) ELSE Obj(<<>>)
           out == m2_request(MethodOr(OptProp(sourceData, <<"method">>), "GET"), data, net)
           status == IF net.kind = "response" THEN net.status ELSE 0
           next == IF IsThrow(out)
                     THEN [call EXCEPT !.pc = "respond",
                                       !.res = Reply(500, "error", "Source endpoint failed"),
                                       !.trace = Append(@, Ev(1, "source", FALSE, status))]
                     ELSE merged_afterSource(call, out)
       IN /\ calls' = [calls EXCEPT ![c] = next]
          /\ logs' =
               IF IsThrow(out)
                 THEN sheets_logEvent([connectionId |-> reqId, event |-> "EXECUTION_FAILED",
                                       timestamp |-> Now, status |-> "error",
                                       error |-> out.v, duration |-> "elapsed"])
               ELSE IF next.pc = "respond"
                 THEN sheets_logEvent([connectionId |-> reqId, event |-> "MAPPING_FAILED",
                                       timestamp |-> Now, status |-> "error",
                                       error |-> next.mapped.v])
               ELSE logs
  /\ UNCHANGED <<backend, reqMethod, reqId, reqBody, connections, mvars, hvars>>

\* the destination request settles
merged_DestResp(c) ==
  /\ backend = "merged"
  /\ calls[c].pc = "dest"
  /\ \E net \in DestOutcomes :
       LET call == calls[c]
           out == m2_request("POST", call.mapped, net)
           status == IF net.kind = "response" THEN net.status ELSE 0
       IN IF IsThrow(out)
            THEN /\ calls' = [calls EXCEPT ![c] =
                      [call EXCEPT !.pc = "respond",
                                   !.res = Reply(500, "error", "Destination endpoint failed"),
                                   !.trace = Append(@, Ev(1, "dest", FALSE, status))]]
                 /\ logs' = sheets_logEvent([connectionId |-> reqId, event |-> "DESTINATION_FAILED",
                                             timestamp |-> Now, status |-> "error",
                                             error |-> out.v])
            ELSE /\ calls' = [calls EXCEPT ![c] =
                      [call EXCEPT !.pc = "logged",
                                   !.trace = Append(@, Ev(1, "dest", TRUE, status))]]
                 /\ logs' = sheets_logEvent([connectionId |-> reqId, event |-> "EXECUTION_SUCCESS",
                                             timestamp |-> Now, status |-> "success",
                                             duration |-> "elapsed",
                                             sourceStatus |-> Prop(call.source, <<"status">>),
                                             destStatus |-> Prop(out, <<"status">>)])
  /\ UNCHANGED <<backend, reqMethod, reqId, reqBody, connections, mvars, hvars>>

\* a failure has been logged: send the error response
merged_Respond(c) ==
  /\ backend = "merged"
  /\ calls[c].pc = "respond"
  /\ calls' = [calls EXCEPT ![c].pc = "done"]
  /\ UNCHANGED <<backend, reqMethod, reqId, reqBody, connections, logs, mvars, hvars>>

\* the connection as the handler holds it after
\* connection.stats.executionCount += 1; connection.stats.successCount += 1
merged_bumpStats(connection) ==
  [connection EXCEPT !.stats.executionCount = @ + 1, !.stats.successCount = @ + 1]

\* the success has been logged: bump the stats of the connection object the
\* handler read at its start and write that object back
merged_Logged(c) ==
  /\ backend = "merged"
  /\ calls[c].pc = "logged"
  /\ LET connection == merged_bumpStats(calls[c].conn) IN
       /\ calls' = [calls EXCEPT ![c].pc = "updating", ![c].conn = connection]
       /\ connections' = sheets_updateConnection(IdOf(reqId), connection)
  /\ UNCHANGED <<backend, reqMethod, reqId, reqBody, logs, mvars, hvars>>

\* the store acknowledged the update: respond 200
merged_Updated(c) ==
  /\ backend = "merged"
  /\ calls[c].pc = "updating"
  /\ calls' = [calls EXCEPT ![c].pc = "done", ![c].res = Reply(200, "executed", "")]
  /\ UNCHANGED <<backend, reqMethod, reqId, reqBody, connections, logs, mvars, hvars>>

----------------------------------------------------------------------------
(* The express/pg server: POST /api/connections/:id/execute *)

\* current?.[key]
OptIndex(current, key) ==
  IF current.t \in {"object", "array"} THEN Index(current, key) ELSE Undef

RECURSIVE reduceKeys(_, _)
reduceKeys(current, keys) ==
  IF keys = <<>> THEN current ELSE reduceKeys(OptIndex(current, Head(keys)), Tail(keys))

\* getNestedValue(obj, path): path.split is no function unless path is a string
getNestedValue(obj, path) ==
  IF path.t # "string" THEN Throw("TypeError") ELSE reduceKeys(obj, split(path.v))

RECURSIVE pg_rulesLoop(_, _, _)
pg_rulesLoop(sourceData, rules, destData) ==
  IF rules = <<>> THEN destData
  ELSE LET rule == Head(rules)
           source_path == Prop(rule, <<"source_path">>)
           dest_field == Prop(rule, <<"dest_field">>)
       IN IF IsThrow(source_path) THEN source_path
          ELSE IF ~(Truthy(source_path) /\ Truthy(dest_field))
            THEN pg_rulesLoop(sourceData, Tail(rules), destData)
          ELSE LET value == getNestedValue(sourceData, source_path) IN
            IF IsThrow(value) THEN value
            ELSE pg_rulesLoop(sourceData, Tail(rules),
                   IF value = Undef THEN destData ELSE Put(destData, ToKey(dest_field), value))

\* the "Apply mapping rules" block
pg_applyRules(sourceData, mapping_rules) ==
  IF mapping_rules.t = "array" /\ Len(mapping_rules.v) > 0
    THEN pg_rulesLoop(sourceData, mapping_rules.v, Obj(<<>>))
    ELSE sourceData

\* the row after UPDATE connections SET execution_count = execution_count + 1,
\* success_count = success_count + $1, error_count = error_count + $2,
\* last_executed = CURRENT_TIMESTAMP
pg_updateStats(row, success) ==
  [row EXCEPT !.execution_count = @ + 1,
              !.success_count = @ + (IF success THEN 1 ELSE 0),
              !.error_count = @ + (IF success THEN 0 ELSE 1),
              !.last_executed = Now]

\* the catch block of the route: respond 500 with the error's message
pg_catch(call, message) ==
  [call EXCEPT !.pc = "done", !.res = Reply(500, "error", message)]

\* from the source answer to the await of the destination fetch
pg_afterSource(call, sourceData) ==
  LET destData == pg_applyRules(sourceData, call.conn.mapping_rules) IN
    IF IsThrow(destData)
      THEN pg_catch([call EXCEPT !.source = sourceData,
                       !.trace = @ \o <<Ev(1, "source", TRUE, 200), Ev(1, "map", FALSE, 0)>>],
                    destData.v)
      ELSE [call EXCEPT !.pc = "dest", !.source = sourceData, !.mapped = destData,
                        !.trace = @ \o <<Ev(1, "source", TRUE, 200), Ev(1, "map", TRUE, 0),
                                         Ev(1, "dest_req", TRUE, 0)>>]

\* connect and SELECT the connection row
pg_Start(c) ==
  /\ backend = "pg"
  /\ calls[c].pc = "idle"
  /\ calls' = [calls EXCEPT ![c].pc = "select"]
  /\ UNCHANGED <<backend, reqMethod, reqId, reqBody, connections, logs, mvars, hvars>>

\* the row arrived: 404, or the source fetch is issued
pg_Selected(c) ==
  /\ backend = "pg"
  /\ calls[c].pc = "select"
  /\ calls' = [calls EXCEPT ![c] =
       IF IdOf(reqId) \notin DOMAIN connections
         THEN [@ EXCEPT !.pc = "done", !.res = Reply(404, "error", "Connection not found")]
         ELSE [@ EXCEPT !.pc = "source", !.conn = connections[IdOf(reqId)],
                        !.trace = Append(@, Ev(1, "source_req", TRUE, 0))]]
  /\ UNCHANGED <<backend, reqMethod, reqId, reqBody, connections, logs, mvars, hvars>>

\* the source fetch settles
pg_SourceResp(c) ==
  /\ backend = "pg"
  /\ calls[c].pc = "source"
  /\ \E net \in SourceOutcomes :
       LET call == calls[c] IN
         IF net.kind # "response"
           THEN /\ calls' = [calls EXCEPT ![c] =
                     pg_catch([call EXCEPT !.trace = Append(@, Ev(1, "source", FALSE, 0))],
                              "fetch failed")]
                /\ logs' = logs
         ELSE IF ~IsOk(net.status)
           THEN /\ calls' = [calls EXCEPT ![c] =
                     [call EXCEPT !.pc = "respond",
                                  !.res = Reply(500, "error", "Source request failed"),
                                  !.trace = Append(@, Ev(1, "source", FALSE, net.status))]]
                /\ logs' = Append(logs, [connection_id |-> reqId, success |-> FALSE,
                                         error_message |-> "Source request failed",
                                         execution_time_ms |-> "elapsed"])
         ELSE /\ calls' = [calls EXCEPT ![c] = pg_afterSource(call, net.body)]
              /\ logs' = logs
  /\ UNCHANGED <<backend, reqMethod, reqId, reqBody, connections, mvars, hvars>>

\* the destination fetch settles
pg_DestResp(c) ==
  /\ backend = "pg"
  /\ calls[c].pc = "dest"
  /\ \E net \in DestOutcomes :
       LET call == calls[c] IN
         IF net.kind # "response"
           THEN /\ calls' = [calls EXCEPT ![c] =
                     pg_catch([call EXCEPT !.trace = Append(@, Ev(1, "dest", FALSE, 0))],
                              "fetch failed")]
                /\ logs' = logs
           ELSE /\ calls' = [calls EXCEPT ![c] =
                     [call EXCEPT !.pc = "logged",
                                  !.trace = Append(@, Ev(1, "dest", IsOk(net.status), net.status))]]
                /\ logs' = Append(logs, [connection_id |-> reqId, success |-> IsOk(net.status),
                                         source_response |-> call.source,
                                         dest_response |-> IF IsOk(net.status) THEN net.body ELSE Null,
                                         execution_time_ms |-> "elapsed"])
  /\ UNCHANGED <<backend, reqMethod, reqId, reqBody, connections, mvars, hvars>>

\* the failure row is inserted: send the error response
pg_Respond(c) ==
  /\ backend = "pg"
  /\ calls[c].pc = "respond"
  /\ calls' = [calls EXCEPT ![c].pc = "done"]
  /\ UNCHANGED <<backend, reqMethod, reqId, reqBody, connections, logs, mvars, hvars>>

\* the execution row is inserted: UPDATE the connection's counters
pg_Logged(c) ==
  /\ backend = "pg"
  /\ calls[c].pc = "logged"
  /\ LET success == calls[c].trace[Len(calls[c].trace)].ok IN
       connections' = [connections EXCEPT ![IdOf(reqId)] = pg_updateStats(@, success)]
  /\ calls' = [calls EXCEPT ![c].pc = "updating"]
  /\ UNCHANGED <<backend, reqMethod, reqId, reqBody, logs, mvars, hvars>>

\* the UPDATE is done: respond
pg_Updated(c) ==
  /\ backend = "pg"
  /\ calls[c].pc = "updating"
  /\ calls' = [calls EXCEPT ![c].pc = "done", ![c].res = Reply(200, "executed", "")]
  /\ UNCHANGED <<backend, reqMethod, reqId, reqBody, connections, logs, mvars, hvars>>

----------------------------------------------------------------------------
(* Deployments and the requests they receive *)

MaxRecords == 2

ConnIds == {"c1", "c2"}

NewStats == [executionCount |-> 0, successCount |-> 0, errorCount |-> 0]

RecordValues == {SrcAB, Obj(<<>>)}

RecordLists == UNION {[1..n -> RecordValues] : n \in 0..MaxRecords}

Body(records) == Obj(<< <<<<"records">>, records>> >>)

\* storage.js connections: c1 maps $.a to x and requires it, c2 has no mapping
ApiConnections ==
  [k \in ConnIds |->
     [id |-> k, method |-> Undef, stats |-> NewStats,
      mappings |-> IF k = "c1" THEN Arr(<<RuleFn(P(<<"a">>), S("x"), "required")>>)
                   ELSE Undef]]

ApiRequests ==
  {<<"POST", S(k), Body(Arr(items))>> : k \in ConnIds, items \in RecordLists}
    \cup {<<"POST", S("c1"), b>> : b \in {BadJson, Null, Obj(<<>>), Body(Str(<<"a", "b">>)),
                                          Body(SrcAB)}}
    \cup {<<"POST", S("zz"), Body(Arr(<<SrcAB>>))>>, <<"GET", S("c1"), Body(Arr(<<SrcAB>>))>>}

\* the connections backend-create.js stores: c1 maps the source response,
\* c2 carries a path that is no string
MergedConnections ==
  [k \in ConnIds |->
     [id |-> k, stats |-> NewStats,
      mapping |-> IF k = "c1"
                    THEN Obj(<< <<<<"x">>, P(<<"body", "a">>)>>, <<<<"y">>, S("lit")>> >>)
                    ELSE KeyedNum]]

ExecBody(connectionId) == Obj(<< <<<<"connectionId">>, connectionId>> >>)

MergedRequests ==
  {<<"POST", S(k), ExecBody(S(k))>> : k \in ConnIds \cup {"zz"}}
    \cup {<<"POST", Undef, Undef>>, <<"POST", Undef, Obj(<<>>)>>,
          <<"POST", Str(<<>>), ExecBody(Str(<<>>))>>, <<"GET", S("c1"), ExecBody(S("c1"))>>}

\* rows of the connections table: c1 maps a to x, c2 carries a source_path
\* that is no string
PgRule(source_path, dest_field) ==
  Obj(<< <<<<"source_path">>, source_path>>, <<<<"dest_field">>, dest_field>> >>)

PgConnections ==
  [k \in ConnIds |->
     [id |-> k, execution_count |-> 0, success_count |-> 0, error_count |-> 0,
      last_executed |-> Null,
      mapping_rules |-> IF k = "c1" THEN Arr(<<PgRule(S("a"), S("x"))>>)
                        ELSE Arr(<<PgRule(Num(5), S("x"))>>)]]

PgRequests == {<<"POST", S(k), Undef>> : k \in ConnIds \cup {"zz"}}

\* the DataMapper is not exercised on its own while a backend is deployed
NoMapperCall ==
  /\ mSource = Undef
  /\ mMapping = Undef
  /\ mPath = Undef
  /\ mFn = "idle"
  /\ mRet = Undef

Init ==
  /\ NoMapperCall
  /\ NoHttpCall
  /\ backend \in {"api", "merged", "pg"}
  /\ connections = CASE backend = "api" -> ApiConnections
                     [] backend = "merged" -> MergedConnections
                     [] OTHER -> PgConnections
  /\ \E r \in CASE backend = "api" -> ApiRequests
                [] backend = "merged" -> MergedRequests
                [] OTHER -> PgRequests :
       /\ reqMethod = r[1]
       /\ reqId = r[2]
       /\ reqBody = r[3]
  /\ logs = <<>>
  /\ calls = [c \in CallIds |-> IdleCall]

Next ==
  \E c \in CallIds :
    \/ api_Start(c)
    \/ api_Body(c)
    \/ api_DestResp(c)
    \/ merged_Start(c)
    \/ merged_GotConn(c)
    \/ merged_SourceResp(c)
    \/ merged_DestResp(c)
    \/ merged_Respond(c)
    \/ merged_Logged(c)
    \/ merged_Updated(c)
    \/ pg_Start(c)
    \/ pg_Selected(c)
    \/ pg_SourceResp(c)
    \/ pg_DestResp(c)
    \/ pg_Respond(c)
    \/ pg_Logged(c)
    \/ pg_Updated(c)

Spec == Init /\ [][Next]_vars

----------------------------------------------------------------------------
(* HttpClient.healthCheck of backend/lib/dataMapper.js and of merged_http2 *)

\* milliseconds: the time a reachable or refusing host takes to settle a
\* fetch, the default timeout of healthCheck, and the time after which the
\* platform's fetch gives up on a host that never answers
QuickMs == 100
HealthTimeout == 5000
PlatformLimit == 300000

\* a probe that takes every status below 500 for healthy
probeResult_below500(res, latency) ==
  Obj(<< <<<<"healthy">>, Bool(res.status < 500)>>, <<<<"status">>, Num(res.status)>>,
         <<<<"latency">>, Num(latency)>>, <<<<"timestamp">>, S(Now)>> >>)

\* the result object of a probe that got a response
probeResult(res, latency) ==
  Obj(<< <<<<"healthy">>, Bool(IsOk(res.status))>>, <<<<"status">>, Num(res.status)>>,
         <<<<"latency">>, Num(latency)>>, <<<<"timestamp">>, S(Now)>> >>)

\* the result object of the catch block
probeFailure(message, latency) ==
  Obj(<< <<<<"healthy">>, Bool(FALSE)>>, <<<<"error">>, S(message)>>,
         <<<<"latency">>, Num(latency)>>, <<<<"timestamp">>, S(Now)>> >>)

\* healthCheck without its try/catch: a rejected GET leaves the call
healthCheck_noCatch(head, get) ==
  IF head.kind = "response" THEN probeResult(head, QuickMs)
  ELSE IF head.kind = "error" /\ get.kind = "response" THEN probeResult(get, 2 * QuickMs)
  ELSE Throw("fetch failed")

\* healthCheck(url): HEAD, and GET when the HEAD is rejected; one timer
\* started with the call aborts both, and an aborted signal rejects the GET
\* at once
healthCheck(head, get) ==
  CASE head.kind = "response" -> probeResult(head, QuickMs)
    [] head.kind \in {"hang", "late"} ->
         probeFailure("This operation was aborted", HealthTimeout)
    [] get.kind = "response" -> probeResult(get, 2 * QuickMs)
    [] get.kind = "error" -> probeFailure("fetch failed", 2 * QuickMs)
    [] OTHER -> probeFailure("This operation was aborted", HealthTimeout)

\* when one fetch settles, counted from its start, if nothing aborts it
settles(net) ==
  CASE net.kind = "late" -> HealthTimeout + QuickMs
    [] net.kind = "hang" -> PlatformLimit
    [] OTHER -> QuickMs

\* healthCheck(url) of merged_http2: HEAD, and GET when the HEAD is
\* rejected; nothing aborts a fetch
m2_healthCheck(head, get) ==
  CASE head.kind \in {"response", "late"} -> probeResult(head, settles(head))
    [] get.kind \in {"response", "late"} -> probeResult(get, settles(head) + settles(get))
    [] OTHER -> probeFailure("fetch failed", settles(head) + settles(get))

\* a probe that issues the GET whatever the HEAD did
probeFetches_both(rejected) ==
  <<[method |-> "HEAD", body |-> Undef], [method |-> "GET", body |-> Undef]>>

\* the fetches healthCheck issues: a HEAD, then a GET if the HEAD is rejected
probeFetches(rejected) ==
  <<[method |-> "HEAD", body |-> Undef]>>
    \o (IF rejected THEN <<[method |-> "GET", body |-> Undef]>> ELSE <<>>)

----------------------------------------------------------------------------
(* Calls of the two HttpClients on their own *)

HttpMethods == {"GET", "HEAD", "POST", "PUT", "PATCH", "DELETE"}

\* the headers argument: absent ({}), a custom header, a Content-Type, both
CallerHeaders ==
  {Obj(<<>>),
   Obj(<< <<<<"X-Api-Key">>, S("k")>> >>),
   Obj(<< <<<<"Content-Type">>, S("text/plain")>> >>),
   Obj(<< <<<<"X-Api-Key">>, S("k")>>, <<<<"Content-Type">>, S("text/plain")>> >>)}

\* the data argument: the default null, a falsy value, an object
CallerData == {Null, Num(0), SrcAB}

\* what the endpoint may do with one fetch
NetOutcomes ==
  {Response(200, SrcAB), Response(204, BadBody), Response(404, S("missing")),
   Response(500, S("fail")), Response(502, BadBody), NetError, NetHang,
   Late(200, SrcAB), Late(500, S("fail"))}

HttpInit ==
  /\ NoMapperCall
  /\ NoBackend
  /\ hFn = "idle"
  /\ hArgs \in [method : HttpMethods, headers : CallerHeaders, data : CallerData,
                 net : {<<>>}]
  /\ hOpts = Undef
  /\ hRet = Undef

Call_request ==
  /\ hFn = "idle"
  /\ \E net \in NetOutcomes :
       /\ hArgs' = [hArgs EXCEPT !.net = <<net>>]
       /\ hRet' = request(hArgs.method, hArgs.data, net)
  /\ hFn' = "request"
  /\ hOpts' = requestOptions(hArgs.method, hArgs.headers, hArgs.data)
  /\ UNCHANGED <<mvars, ovars>>

Call_m2_request ==
  /\ hFn = "idle"
  /\ \E net \in NetOutcomes :
       /\ hArgs' = [hArgs EXCEPT !.net = <<net>>]
       /\ hRet' = m2_request(hArgs.method, hArgs.data, net)
  /\ hFn' = "m2_request"
  /\ hOpts' = m2_requestOptions(hArgs.method, hArgs.headers, hArgs.data)
  /\ UNCHANGED <<mvars, ovars>>

Call_healthCheck ==
  /\ hFn = "idle"
  /\ \E head \in NetOutcomes, get \in NetOutcomes :
       /\ hArgs' = [hArgs EXCEPT !.net = <<head, get>>]
       /\ hRet' = healthCheck(head, get)
       /\ hOpts' = probeFetches(head.kind # "response")
  /\ hFn' = "healthCheck"
  /\ UNCHANGED <<mvars, ovars>>

Call_m2_healthCheck ==
  /\ hFn = "idle"
  /\ \E head \in NetOutcomes, get \in NetOutcomes :
       /\ hArgs' = [hArgs EXCEPT !.net = <<head, get>>]
       /\ hRet' = m2_healthCheck(head, get)
       /\ hOpts' = probeFetches(head.kind \in {"error", "hang"})
  /\ hFn' = "m2_healthCheck"
  /\ UNCHANGED <<mvars, ovars>>

HttpNext ==
  \/ Call_request
  \/ Call_m2_request
  \/ Call_healthCheck
  \/ Call_m2_healthCheck

SpecHttp == HttpInit /\ [][HttpNext]_vars

----------------------------------------------------------------------------
(* backend/api/connections-[id]-test.js and the health handler, on storage.js *)

\* what an endpoint may do with one fetch of a probe
ProbeOutcomes == {Response(200, S("ok")), Response(500, S("fail")), NetError}

\* http.request({url, method: 'GET'}).catch(e => ({ error: e.message }))
sourceCheck(net) ==
  LET r == request("GET", Null, net)
  IN IF IsThrow(r) THEN Obj(<< <<<<"error">>, S(r.v)>> >>) ELSE r

\* the result object of the test handler
testResult(source, destCheck) ==
  Obj(<< <<<<"source">>,
           IF Truthy(Get(source, <<"status">>))
             THEN Obj(<< <<<<"ok">>, Bool(TRUE)>>, <<<<"status">>, Get(source, <<"status">>)>> >>)
             ELSE Obj(<< <<<<"ok">>, Bool(FALSE)>>, <<<<"error">>, Get(source, <<"error">>)>> >>)>>,
         <<<<"destination">>, destCheck>> >>)

\* POST /api/connections/:id/test: method check and lookup, then the GET of
\* the source is in flight
test_Start(c) ==
  /\ backend = "test"
  /\ calls[c].pc = "idle"
  /\ LET conn == getConnection(IdOf(reqId))
     IN calls' = [calls EXCEPT ![c] =
          IF reqMethod # "POST" THEN [@ EXCEPT !.pc = "done", !.res = Reply(405, "", "")]
          ELSE IF conn = Undef
            THEN [@ EXCEPT !.pc = "done", !.res = Reply(404, "", "Connection not found")]
          ELSE [@ EXCEPT !.pc = "source", !.conn = conn]]
  /\ UNCHANGED <<backend, reqMethod, reqId, reqBody, connections, logs, mvars, hvars>>

\* the GET of the source settles; the probe of the destination starts
test_SourceResp(c) ==
  /\ backend = "test"
  /\ calls[c].pc = "source"
  /\ \E net \in ProbeOutcomes :
       calls' = [calls EXCEPT ![c] = [@ EXCEPT !.pc = "dest", !.source = sourceCheck(net)]]
  /\ UNCHANGED <<backend, reqMethod, reqId, reqBody, connections, logs, mvars, hvars>>

\* the probe of the destination settles: build the result, log, respond;
\* a throw inside the try block would end in the 500 of the catch block
test_DestResp(c) ==
  /\ backend = "test"
  /\ calls[c].pc = "dest"
  /\ \E head \in ProbeOutcomes, get \in ProbeOutcomes :
       LET destCheck == healthCheck(head, get)
           result == testResult(calls[c].source, destCheck)
           ok == /\ Get(Get(result, <<"source">>), <<"ok">>) = Bool(TRUE)
                 /\ Truthy(Get(destCheck, <<"healthy">>))
       IN IF IsThrow(destCheck)
            THEN /\ calls' = [calls EXCEPT ![c] =
                       [@ EXCEPT !.pc = "done", !.res = Reply(500, "", destCheck.v)]]
                 /\ UNCHANGED logs
            ELSE /\ logs' = logEvent([event |-> "test", connectionId |-> IdOf(reqId),
                                      status |-> IF ok THEN "ok" ELSE "fail"])
                 /\ calls' = [calls EXCEPT ![c] =
                       [@ EXCEPT !.pc = "done", !.res = Reply(200, result, "")]]
  /\ UNCHANGED <<backend, reqMethod, reqId, reqBody, connections, mvars, hvars>>

\* healthCheck(url).catch(e => ({ healthy: false, error: e.message }))
guardedProbe(head, get) ==
  LET r == healthCheck(head, get)
  IN IF IsThrow(r) THEN Obj(<< <<<<"healthy">>, Bool(FALSE)>>, <<<<"error">>, S(r.v)>> >>)
     ELSE r

\* GET /api/connections/:id/health: method check and lookup, then the probe
\* of the source is in flight
health_Start(c) ==
  /\ backend = "health"
  /\ calls[c].pc = "idle"
  /\ LET conn == getConnection(IdOf(reqId))
     IN calls' = [calls EXCEPT ![c] =
          IF reqMethod # "GET" THEN [@ EXCEPT !.pc = "done", !.res = Reply(405, "", "")]
          ELSE IF conn = Undef
            THEN [@ EXCEPT !.pc = "done", !.res = Reply(404, "", "Connection not found")]
          ELSE [@ EXCEPT !.pc = "source", !.conn = conn]]
  /\ UNCHANGED <<backend, reqMethod, reqId, reqBody, connections, logs, mvars, hvars>>

\* the probe of the source settles; the probe of the destination starts
health_SourceProbe(c) ==
  /\ backend = "health"
  /\ calls[c].pc = "source"
  /\ \E head \in ProbeOutcomes, get \in ProbeOutcomes :
       calls' = [calls EXCEPT ![c] =
                   [@ EXCEPT !.pc = "dest", !.source = guardedProbe(head, get)]]
  /\ UNCHANGED <<backend, reqMethod, reqId, reqBody, connections, logs, mvars, hvars>>

\* the probe of the destination settles: respond
health_DestProbe(c) ==
  /\ backend = "health"
  /\ calls[c].pc = "dest"
  /\ \E head \in ProbeOutcomes, get \in ProbeOutcomes :
       calls' = [calls EXCEPT ![c] =
         [@ EXCEPT !.pc = "done",
                   !.res = Reply(200,
                                 Obj(<< <<<<"connectionId">>, reqId>>,
                                        <<<<"source">>, calls[c].source>>,
                                        <<<<"destination">>, guardedProbe(head, get)>> >>),
                                 "")]]
  /\ UNCHANGED <<backend, reqMethod, reqId, reqBody, connections, logs, mvars, hvars>>

\* storage.logs of a process that has logged n events so far, newest first;
\* n stands for the distinct timestamp of an entry
LoggedSoFar(n) ==
  [i \in 1..n |-> [timestamp |-> Now, event |-> "test", connectionId |-> "c1",
                   status |-> "ok", n |-> n - i + 1]]

ProbeInit ==
  /\ NoMapperCall
  /\ NoHttpCall
  /\ backend \in {"test", "health"}
  /\ connections = ApiConnections
  /\ reqMethod \in {"GET", "POST"}
  /\ reqId \in {S("c1"), S("zz")}
  /\ reqBody = Undef
  /\ logs \in {LoggedSoFar(0), LoggedSoFar(LogCap)}
  /\ calls = [c \in CallIds |-> IdleCall]

ProbeNext ==
  \E c \in CallIds :
    \/ test_Start(c)
    \/ test_SourceResp(c)
    \/ test_DestResp(c)
    \/ health_Start(c)
    \/ health_SourceProbe(c)
    \/ health_DestProbe(c)

SpecProbe == ProbeInit /\ [][ProbeNext]_vars

----------------------------------------------------------------------------
(* backend/lib/storage.js: the connection map on its own *)

\* storage.connections after addConnection(conn)
addConnection(conn) ==
  [k \in DOMAIN connections \cup {conn.id} |->
     IF k = conn.id THEN conn ELSE connections[k]]

\* the connection objects and the patches the callers hand over
NewConnections == [id : ConnIds, name : {"a", "b"}]

Patches == {[name |-> "renamed"], [status |-> "paused"], [id |-> "c2", name |-> "moved"]}

StoreInit ==
  /\ NoMapperCall
  /\ NoHttpCall
  /\ backend = "store"
  /\ reqMethod = "none"
  /\ reqId = Undef
  /\ reqBody = Undef
  /\ connections = <<>>
  /\ logs = <<>>
  /\ calls = [op |-> "none", ret |-> Undef]

Store_addConnection ==
  /\ backend = "store"
  /\ \E conn \in NewConnections :
       /\ connections' = addConnection(conn)
       /\ calls' = [op |-> "addConnection", ret |-> conn]
  /\ UNCHANGED <<backend, reqMethod, reqId, reqBody, logs, mvars, hvars>>

Store_updateConnection ==
  /\ backend = "store"
  /\ \E id \in ConnIds, patch \in Patches :
       /\ connections' = updateConnection(id, patch)
       /\ calls' = [op |-> "updateConnection",
                    ret |-> IF id \in DOMAIN connections
                              THEN Spread2(connections[id], patch) ELSE FALSE]
  /\ UNCHANGED <<backend, reqMethod, reqId, reqBody, logs, mvars, hvars>>

StoreNext ==
  \/ Store_addConnection
  \/ Store_updateConnection

SpecStore == StoreInit /\ [][StoreNext]_vars

----------------------------------------------------------------------------
(* The dashboard client: app.executeConnection and app.testConnection *)

\* the connections the wizard has created
DashConnections ==
  [k \in ConnIds |->
     [id |-> k,
      stats |-> [lastExecution |-> Null, totalExecutions |-> 0, successCount |-> 0,
                 errorCount |-> 0],
      logs |-> <<>>]]

\* what the backend call of the dashboard ends in: a result that reports
\* success, a result that does not, a rejection
DashOutcomes == {"success", "failure", "rejected"}

\* connection.logs.unshift(log), keeping the last 50
dash_log(conn, status) ==
  LET unshifted == <<[timestamp |-> Now, status |-> status]>> \o conn.logs
  IN [conn EXCEPT !.logs = IF Len(unshifted) > 50 THEN SubSeq(unshifted, 1, 50)
                           ELSE unshifted]

\* executeConnection after its backend call: successCount++ or errorCount++
dash_executeSettled(conn, outcome) ==
  IF outcome = "success"
    THEN dash_log([conn EXCEPT !.stats.successCount = @ + 1, !.stats.lastExecution = Now],
                  "success")
    ELSE dash_log([conn EXCEPT !.stats.errorCount = @ + 1], "error")

\* a testConnection that counts the outcome and not the execution
dash_testSettled_noTotal(conn, outcome) ==
  IF outcome = "success"
    THEN dash_log([conn EXCEPT !.stats.successCount = @ + 1, !.stats.lastExecution = Now],
                  "success")
    ELSE dash_log([conn EXCEPT !.stats.errorCount = @ + 1, !.stats.lastExecution = Now],
                  "error")

\* testConnection after its backend call: totalExecutions and one of
\* successCount and errorCount grow by one, in the try block or in the catch
dash_testSettled(conn, outcome) ==
  IF outcome = "success"
    THEN dash_log([conn EXCEPT !.stats.totalExecutions = @ + 1,
                               !.stats.successCount = @ + 1,
                               !.stats.lastExecution = Now], "success")
    ELSE dash_log([conn EXCEPT !.stats.totalExecutions = @ + 1,
                               !.stats.errorCount = @ + 1,
                               !.stats.lastExecution = Now], "error")

DashIdle == [pc |-> "idle", op |-> "none", id |-> ""]

DashInit ==
  /\ NoMapperCall
  /\ NoHttpCall
  /\ backend = "dashboard"
  /\ reqMethod = "none"
  /\ reqId = Undef
  /\ reqBody = Undef
  /\ connections = DashConnections
  /\ logs = <<>>
  /\ calls = [c \in CallIds |-> DashIdle]

\* executeConnection(id) up to its first await: totalExecutions++
dash_executeConnection(c) ==
  /\ backend = "dashboard"
  /\ calls[c].pc = "idle"
  /\ \E id \in ConnIds \cup {"zz"} :
       IF id \notin DOMAIN connections
         THEN /\ calls' = [calls EXCEPT ![c] = [pc |-> "done", op |-> "execute", id |-> id]]
              /\ UNCHANGED connections
         ELSE /\ calls' = [calls EXCEPT ![c] = [pc |-> "wait", op |-> "execute", id |-> id]]
              /\ connections' = [connections EXCEPT ![id].stats.totalExecutions = @ + 1]
  /\ UNCHANGED <<backend, reqMethod, reqId, reqBody, logs, mvars, hvars>>

\* testConnection(id) up to its first await
dash_testConnection(c) ==
  /\ backend = "dashboard"
  /\ calls[c].pc = "idle"
  /\ \E id \in ConnIds \cup {"zz"} :
       calls' = [calls EXCEPT ![c] =
                   [pc |-> IF id \in DOMAIN connections THEN "wait" ELSE "done",
                    op |-> "test", id |-> id]]
  /\ UNCHANGED <<backend, reqMethod, reqId, reqBody, connections, logs, mvars, hvars>>

\* the backend call of executeConnection settles
dash_executeSettles(c) ==
  /\ backend = "dashboard"
  /\ calls[c].pc = "wait"
  /\ calls[c].op = "execute"
  /\ \E outcome \in DashOutcomes :
       connections' = [connections EXCEPT ![calls[c].id] = dash_executeSettled(@, outcome)]
  /\ calls' = [calls EXCEPT ![c].pc = "done"]
  /\ UNCHANGED <<backend, reqMethod, reqId, reqBody, logs, mvars, hvars>>

\* the backend call of testConnection settles
dash_testSettles(c) ==
  /\ backend = "dashboard"
  /\ calls[c].pc = "wait"
  /\ calls[c].op = "test"
  /\ \E outcome \in DashOutcomes :
       connections' = [connections EXCEPT ![calls[c].id] = dash_testSettled(@, outcome)]
  /\ calls' = [calls EXCEPT ![c].pc = "done"]
  /\ UNCHANGED <<backend, reqMethod, reqId, reqBody, logs, mvars, hvars>>

DashNext ==
  \E c \in CallIds :
    \/ dash_executeConnection(c)
    \/ dash_testConnection(c)
    \/ dash_executeSettles(c)
    \/ dash_testSettles(c)

SpecDash == DashInit /\ [][DashNext]_vars

----------------------------------------------------------------------------
(* Properties of the execute handlers *)

Done(c) == calls[c].pc = "done"

AllDone == \A c \in CallIds : Done(c)

\* the connection the requests name, when it exists
Target == IdOf(reqId)

\* the counters of a stored connection, whatever the backend calls them
ExecutionCount(k) ==
  IF backend = "pg" THEN connections[k].execution_count ELSE connections[k].stats.executionCount
SuccessCount(k) ==
  IF backend = "pg" THEN connections[k].success_count ELSE connections[k].stats.successCount
ErrorCount(k) ==
  IF backend = "pg" THEN connections[k].error_count ELSE connections[k].stats.errorCount
LastExecutedAt(k) ==
  IF backend = "pg" THEN connections[k].last_executed
  ELSE IF "lastExecutedAt" \in DOMAIN connections[k].stats
    THEN connections[k].stats.lastExecutedAt
  ELSE Null

InitialConnections ==
  CASE backend = "api" -> ApiConnections
    [] backend = "merged" -> MergedConnections
    [] OTHER -> PgConnections

\* the stage events of record r in the trace of call c
RecTrace(c, r) == SelectSeq(calls[c].trace, LAMBDA e : e.rec = r)

\* the records call c has started to work on
Attempted(c) == {calls[c].trace[i].rec : i \in 1..Len(calls[c].trace)}

\* the records of call c that went through the destination successfully
Succeeded(c) ==
  {calls[c].trace[i].rec : i \in {j \in 1..Len(calls[c].trace) :
      calls[c].trace[j].stage = "dest" /\ calls[c].trace[j].ok}}

\* the records a call was asked to execute: the batch of the api handler,
\* one implicit record for the single-execution handlers
NRecords(c) ==
  IF backend = "api" THEN Len(calls[c].items)
  ELSE IF calls[c].trace # <<>> THEN 1 ELSE 0

RECURSIVE SumTo(_, _)
SumTo(f, n) == IF n = 0 THEN 0 ELSE f[n] + SumTo(f, n - 1)

\* the sum of f over all calls
Total(f) == SumTo(f, NCalls)

\* the stages of one record, in order: the api handler is handed the record
\* (it is the source data), the other handlers fetch it
Pipeline ==
  IF backend = "api" THEN <<"map", "dest_req", "dest">>
  ELSE <<"source_req", "source", "map", "dest_req", "dest">>

\* C1: for every record, the stages run in the order fetch source -> map ->
\* post destination; a stage runs only after every earlier stage succeeded,
\* so a failed stage is the last stage of its record (a failed mapping is
\* followed by no destination request).
C1_StagesInOrder ==
  \A c \in CallIds : \A r \in Attempted(c) :
    LET tr == RecTrace(c, r) IN
      /\ Len(tr) <= Len(Pipeline)
      /\ \A i \in 1..Len(tr) :
           /\ tr[i].stage = Pipeline[i]
           /\ i < Len(tr) => tr[i].ok

C1_Witness ==
  /\ backend = "api"
  /\ \E c \in CallIds :
       /\ Done(c)
       /\ Len(calls[c].trace) = 4
       /\ calls[c].trace[3] = Ev(1, "dest", TRUE, 200)
       /\ calls[c].trace[4] = Ev(2, "map", FALSE, 0)

\* C2: in a batch execute, a network failure on one record does not abort
\* the batch: the call still answers with its results, and every record of
\* the batch is processed.
C2_BatchSurvivesNetworkFailure ==
  \A c \in CallIds :
    (/\ backend = "api"
     /\ Done(c)
     /\ \E i \in 1..Len(calls[c].trace) :
          calls[c].trace[i].stage = "dest" /\ ~calls[c].trace[i].ok)
      => /\ calls[c].res.status = 200
         /\ Attempted(c) = 1..Len(calls[c].items)

\* every destination request of every call was answered with HTTP 500, and
\* nothing else failed
Always500 ==
  \A c \in CallIds : \A i \in 1..Len(calls[c].trace) :
    LET e == calls[c].trace[i] IN
      IF e.stage = "dest" THEN e.status = 500 ELSE e.ok

\* C3: when the destination answers HTTP 500 to every request, the calls
\* over n records in all leave the connection's errorCount incremented by
\* exactly n and its successCount unchanged.
C3_Always500CountsErrors ==
  (AllDone /\ Always500 /\ Target \in ConnIds)
    => /\ ErrorCount(Target) = Total([c \in CallIds |-> NRecords(c)])
       /\ SuccessCount(Target) = 0

\* C4: every execution attempt, successful or not, increments executionCount
\* by one, updates lastExecutedAt, and increments exactly one of successCount
\* and errorCount, so that executionCount = successCount + errorCount.
C4_EveryAttemptCounted ==
  (AllDone /\ Target \in ConnIds)
    => LET attempts == Total([c \in CallIds |-> Cardinality(Attempted(c))])
           successes == Total([c \in CallIds |-> Cardinality(Succeeded(c))])
       IN /\ ExecutionCount(Target) = attempts
          /\ SuccessCount(Target) = successes
          /\ ErrorCount(Target) = attempts - successes
          /\ attempts > 0 => LastExecutedAt(Target) # Null

\* C5: concurrent execute calls on one connection lose no stat update: once
\* N attempts have completed, all of them successful, executionCount is N
\* (stated for the handlers that write the counters).
C5_NoLostUpdate ==
  (/\ backend \in {"merged", "pg"}
   /\ AllDone
   /\ Target \in ConnIds
   /\ \A c \in CallIds : Succeeded(c) = Attempted(c))
    => ExecutionCount(Target) = Total([c \in CallIds |-> Cardinality(Succeeded(c))])

\* the records value of a request body
RecordsOf(body) == IF body.t = "object" THEN Get(body, <<"records">>) ELSE Undef

\* the request names no stored connection (unknown or missing id), or its
\* records are not an array
InvalidInput ==
  /\ reqMethod = "POST"
  /\ CASE backend = "api" ->
            Target \notin ConnIds \/ (reqBody # BadJson /\ RecordsOf(reqBody).t # "array")
       [] backend = "merged" -> reqBody.t = "object" /\ Target \notin ConnIds
       [] OTHER -> Target \notin ConnIds

\* C6: on an invalid connection or payload, execute answers with a
\* validation error (400 or 404), issues no outbound request, appends no log
\* entry and changes no connection.
C6_ValidationBeforeAnyEffect ==
  InvalidInput
    => /\ \A c \in CallIds :
            /\ calls[c].trace = <<>>
            /\ Done(c) => calls[c].res.status \in {400, 404}
       /\ logs = <<>>
       /\ connections = InitialConnections

C6_Witness ==
  /\ backend = "api"
  /\ InvalidInput
  /\ Target \in ConnIds
  /\ AllDone
  /\ \A c \in CallIds : calls[c].res = Reply(400, "errors", "records must be an array")
  /\ logs = <<>>

----------------------------------------------------------------------------
(* Properties of path resolution and of the writes of transform *)

\* a DataMapper call resolved a path string that starts with "$."
ResolvedPath ==
  /\ mFn \in {"getValueByPath", "m2_getValueByPath"}
  /\ mPath.t = "string"
  /\ startsWith(mPath.v, PathPrefix)

\* the keys the path names: the non-empty segments between the dots
PathKeys == SelectSeq(split(slice(mPath.v, 2)), LAMBDA k : k # <<>>)

\* the segments joined by dots again
RECURSIVE joinDots(_)
joinDots(segs) ==
  IF segs = <<>> THEN <<>>
  ELSE IF Len(segs) = 1 THEN segs[1]
  ELSE segs[1] \o <<".">> \o joinDots(Tail(segs))

\* C11: resolving $.k1...kn walks the keys in order: when at every step the
\* current value is a non-null object containing the key, the nested value
\* is returned (7 for $.a.b.c on {a:{b:{c:7}}}); as soon as a step's value is
\* no non-null object or lacks the key, undefined is returned; no error is
\* raised either way.
C11_WalkInOrder ==
  ResolvedPath
    => LET n == Len(PathKeys)
           at[i \in 0..n] == IF i = 0 THEN mSource ELSE OptIndex(at[i - 1], PathKeys[i])
           ok(i) == /\ at[i - 1].t \in {"object", "array"}
                    /\ In(PathKeys[i], at[i - 1])
       IN /\ ~IsThrow(mRet)
          /\ (\A i \in 1..n : ok(i)) => mRet = at[n]
          /\ (\E i \in 1..n : ~ok(i)) => mRet = Undef
          /\ (mSource = SrcDeep /\ mPath = P(<<"a", "b", "c">>)) => mRet = Num(7)
          /\ (mSource = SrcHole /\ mPath = P(<<"a", "b", "c">>)) => mRet = Undef

C11_Witness ==
  /\ mFn = "getValueByPath"
  /\ mSource = SrcDeep
  /\ mPath = P(<<"a", "b", "c">>)
  /\ mRet = Num(7)

\* C12: empty path segments are discarded: a path whose part after "$."
\* has leading, trailing or consecutive dots resolves to what the path with
\* its empty segments removed resolves to ($.a..b as $.a.b).
C12_EmptySegmentsDiscarded ==
  ResolvedPath
    => LET clean == Str(PathPrefix \o joinDots(PathKeys)) IN
       mRet = IF mFn = "getValueByPath" THEN getValueByPath(mSource, clean)
              ELSE m2_getValueByPath(mSource, clean)

C12_Witness ==
  /\ mFn = "getValueByPath"
  /\ mSource = SrcAB
  /\ mPath = Str(<<"$", ".", ".", "a">>)
  /\ mRet = Num(1)

\* C13: transform never mutates its source: in both mapping forms and in
\* both versions, whether it returns or throws, the source is afterwards
\* what it was before, and nothing but the returned object is written.
C13_SourceNotMutated ==
  [][mFn' \in {"transform", "m2_transform"}
       => /\ mSource' = mSource
          /\ ovars' = ovars
          /\ hvars' = hvars]_vars

C13_Witness ==
  /\ mFn = "transform"
  /\ mSource = SrcAB
  /\ mMapping = KeyedMixed
  /\ mRet.t = "object"
  /\ mRet # mSource

----------------------------------------------------------------------------
(* Properties of the HttpClients *)

\* a request call has settled; Answer is what the endpoint did with its fetch
Requested == hFn \in {"request", "m2_request"}

Answer == hArgs.net[1]

\* the call returned the normalized object of the response
Normalized ==
  /\ hRet.t = "object"
  /\ {<<"status">>, <<"headers">>, <<"body">>} \subseteq KeySet(hRet)
  /\ Get(hRet, <<"status">>) = Num(Answer.status)
  /\ Get(hRet, <<"body">>) = Answer.body

\* the call failed with an error that carries the response's status and body
FailedWithStatus ==
  /\ IsThrow(hRet)
  /\ {"status", "body"} \subseteq DOMAIN hRet
  /\ hRet.status = Num(Answer.status)
  /\ hRet.body = Answer.body

\* C14: request returns the normalized {status, headers, body} exactly when
\* the response status is 2xx, and for every non-2xx response it fails with
\* an error carrying that response's status and body.
C14_NormalizedOrHttpError ==
  Requested =>
    /\ (hRet.t = "object") <=> (Answer.kind = "response" /\ IsOk(Answer.status))
    /\ hRet.t = "object" => Normalized
    /\ (Answer.kind = "response" /\ ~IsOk(Answer.status)) => FailedWithStatus

\* the call failed with a timeout: an error without HTTP status whose message
\* is not the one of any other failure
TimedOut ==
  /\ IsThrow(hRet)
  /\ "status" \notin DOMAIN hRet
  /\ hRet.v = "Request timeout"

\* C15: when the timeout elapses before a response arrives the call fails with
\* a timeout failure that carries no HTTP status, and a response that arrives
\* in time is never reported as a timeout.
C15_TimeoutIsItsOwnFailure ==
  Requested =>
    /\ Answer.kind \in {"hang", "late"} => TimedOut
    /\ Answer.kind = "response" => ~TimedOut

\* C16: the options handed to fetch carry a body only when the method is
\* POST, PUT, PATCH or DELETE, the body is then the serialized data, and a
\* GET or HEAD carries none whatever data the caller gives.
C16_BodyOnlyForWriteMethods ==
  Requested =>
    /\ hOpts.body # Undef =>
         /\ hArgs.method \in {"POST", "PUT", "PATCH", "DELETE"}
         /\ hOpts.body = [t |-> "json", v |-> hArgs.data]
    /\ hArgs.method \in {"GET", "HEAD"} => hOpts.body = Undef
    /\ hOpts.method = hArgs.method

C16_Witness ==
  /\ hFn = "request"
  /\ hArgs.method = "GET"
  /\ hArgs.data = SrcAB
  /\ hOpts.body = Undef
  /\ Normalized

\* C17: the headers handed to fetch are the caller's headers, each with the
\* caller's value, plus Content-Type: application/json when the caller gives
\* no Content-Type; a Content-Type of the caller replaces the default.
C17_CallerHeadersWin ==
  Requested =>
    /\ KeySet(hOpts.headers) = KeySet(hArgs.headers) \cup {<<"Content-Type">>}
    /\ \A k \in KeySet(hArgs.headers) : Get(hOpts.headers, k) = Get(hArgs.headers, k)
    /\ <<"Content-Type">> \notin KeySet(hArgs.headers)
         => Get(hOpts.headers, <<"Content-Type">>) = Str(<<"application/json">>)

C17_Witness ==
  /\ hFn = "request"
  /\ KeySet(hArgs.headers) = {<<"X-Api-Key">>, <<"Content-Type">>}
  /\ Get(hOpts.headers, <<"Content-Type">>) = Str(<<"text/plain">>)
  /\ Get(hOpts.headers, <<"X-Api-Key">>) = Str(<<"k">>)

\* a healthCheck call has settled
Probed == hFn \in {"healthCheck", "m2_healthCheck"}

\* the time the last fetch of the probe settled or was aborted, counted from
\* the start of the call
ProbeEnd ==
  LET free(net) == IF net.kind = "late" THEN 5100
                   ELSE IF net.kind = "hang" THEN 300000
                   ELSE 100
      total == IF Len(hOpts) = 1 THEN free(hArgs.net[1])
               ELSE free(hArgs.net[1]) + free(hArgs.net[2])
  IN IF hFn = "healthCheck" /\ total > 5000 THEN 5000 ELSE total

\* C18: healthCheck never throws: whatever the network does it returns an
\* object with a boolean healthy, the latency from the start of the call to
\* the end of its last fetch, and a timestamp; when the host is unreachable
\* the result is healthy:false with a non-empty error string.
C18_HealthCheckNeverThrows ==
  Probed =>
    /\ hRet.t = "object"
    /\ {<<"healthy">>, <<"latency">>, <<"timestamp">>} \subseteq KeySet(hRet)
    /\ Get(hRet, <<"healthy">>).t = "boolean"
    /\ Get(hRet, <<"latency">>) = Num(ProbeEnd)
    /\ (hArgs.net[1].kind = "error" /\ hArgs.net[2].kind = "error") =>
         /\ Get(hRet, <<"healthy">>) = Bool(FALSE)
         /\ <<"error">> \in KeySet(hRet)
         /\ Get(hRet, <<"error">>).t = "string"
         /\ Get(hRet, <<"error">>).v # <<>>

C18_Witness ==
  /\ hFn = "healthCheck"
  /\ hArgs.net = <<NetError, NetError>>
  /\ Len(hOpts) = 2
  /\ Get(hRet, <<"healthy">>) = Bool(FALSE)
  /\ Get(hRet, <<"error">>) = Str(<<"fetch failed">>)

----------------------------------------------------------------------------
(* Properties of the test and health handlers and of the log *)

\* the value is a result object of healthCheck
IsProbeResult(x) ==
  /\ x.t = "object"
  /\ {<<"healthy">>, <<"latency">>, <<"timestamp">>} \subseteq KeySet(x)
  /\ Get(x, <<"healthy">>).t = "boolean"

\* C19: a test or health call for an existing connection always answers 200
\* with a source and a destination result, each one a result object of
\* healthCheck, whatever the two endpoints do.
C19_BothProbesFromHealthCheck ==
  \A c \in CallIds :
    (backend \in {"test", "health"} /\ calls[c].pc = "done" /\ calls[c].conn # Undef) =>
      /\ calls[c].res.status = 200
      /\ IsProbeResult(Get(calls[c].res.body, <<"source">>))
      /\ IsProbeResult(Get(calls[c].res.body, <<"destination">>))

\* the step is the logEvent of a test call
Logs == \E c \in CallIds : calls[c].pc = "dest" /\ calls'[c].pc = "done" /\ backend = "test"

\* C20 as stated: a logging step adds one entry and keeps every entry that
\* was in the log, and no other step touches the log.
C20_AppendOnly ==
  [][IF Logs THEN /\ Len(logs') = Len(logs) + 1
                  /\ logs' = <<logs'[1]>> \o logs
     ELSE logs' = logs]_vars

\* C20: a logging step puts one entry in front of the log; the entries that
\* were there keep their content and order, and only the oldest ones beyond
\* the newest LogCap entries are dropped; no other step touches the log.
C20_NewestKept ==
  [][IF Logs
       THEN LET n == IF Len(logs) + 1 > LogCap THEN LogCap ELSE Len(logs) + 1
            IN /\ Len(logs') = n
               /\ logs'[1].event = "test" /\ "n" \notin DOMAIN logs'[1]
               /\ \A i \in 2..n : logs'[i] = logs[i - 1]
     ELSE logs' = logs]_vars

C20_Witness ==
  /\ Len(logs) = LogCap
  /\ "n" \notin DOMAIN logs[1]
  /\ logs[LogCap] = LoggedSoFar(LogCap)[LogCap - 1]

----------------------------------------------------------------------------
(* Properties of the execution log and of the order of a batch *)

OutcomeEvents == {"SOURCE_FAILED", "MAPPING_FAILED", "DESTINATION_FAILED", "EXECUTION_SUCCESS"}

\* the outcome events the attempts of call c must have logged, by name: one
\* per record started, named after the stage its trace ends in
Outcome(c, r) ==
  LET tr == RecTrace(c, r)
      last == tr[Len(tr)]
  IN IF last.ok THEN "EXECUTION_SUCCESS"
     ELSE IF last.stage = "source" THEN "SOURCE_FAILED"
     ELSE IF last.stage = "map" THEN "MAPPING_FAILED"
     ELSE "DESTINATION_FAILED"

\* the number of log entries with the given event name
Logged(name) ==
  Cardinality({i \in 1..Len(logs) : "event" \in DOMAIN logs[i] /\ logs[i].event = name})

\* C21: once all execute calls are done, the log holds exactly one outcome
\* event per attempt, named SOURCE_FAILED, MAPPING_FAILED, DESTINATION_FAILED
\* or EXECUTION_SUCCESS after the outcome of the attempt.
C21_OneNamedEventPerAttempt ==
  (backend \in {"api", "merged"} /\ AllDone) =>
    /\ Len(logs) = Total([c \in CallIds |-> Cardinality(Attempted(c))])
    /\ \A name \in OutcomeEvents :
         Logged(name) = Total([c \in CallIds |->
                                Cardinality({r \in Attempted(c) : Outcome(c, r) = name})])

\* C22: every entry of the execution log carries the duration of its
\* execution (execution_time_ms in the execution_logs table).
C22_EveryOutcomeHasDuration ==
  backend \in {"api", "merged", "pg"} =>
    \A i \in 1..Len(logs) :
      "duration" \in DOMAIN logs[i] \/ "execution_time_ms" \in DOMAIN logs[i]

\* the records of the batch request, in input order
InputRecords == Prop(reqBody, <<"records">>).v

\* the trace and the results of a batch call follow the input order: the
\* stages of record r+1 come after the successful destination answer of
\* record r, nothing follows a failed stage, and result k is that of record k
BatchInOrder(call) ==
  /\ \A i \in 1..Len(call.trace) : \A j \in 1..Len(call.trace) :
       i < j => /\ call.trace[i].rec <= call.trace[j].rec
                /\ call.trace[i].ok
                /\ call.trace[i].rec < call.trace[j].rec =>
                     \E k \in i..(j - 1) :
                       call.trace[k] = Ev(call.trace[i].rec, "dest", TRUE, call.trace[k].status)
  /\ Len(call.results) <= Len(call.items)
  /\ \A k \in 1..Len(call.results) :
       /\ call.results[k].input = InputRecords[k]
       /\ call.results[k].mapped = transform(InputRecords[k],
                                            IF Truthy(call.conn.mappings)
                                              THEN call.conn.mappings ELSE Obj(<<>>))

\* C23: the batch handler works through the records one after the other in
\* input order: a record is started only after the one before it is done,
\* a failed record ends the batch, result k belongs to input record k, and
\* the log entry of a record is written when its result is, so that the
\* entries of a call are logged in input order.
C23_SequentialInOrder ==
  [][\A c \in CallIds :
       (backend = "api" /\ calls'[c] # calls[c]) =>
         /\ BatchInOrder(calls'[c])
         /\ IF Len(calls'[c].results) > Len(calls[c].results)
              THEN /\ Len(calls'[c].results) = Len(calls[c].results) + 1
                   /\ Len(logs') = Len(logs) + 1
                   /\ logs'[1].mapped = calls'[c].results[Len(calls'[c].results)].mapped
                   /\ \A i \in 1..Len(logs) : logs'[i + 1] = logs[i]
              ELSE logs' = logs]_vars

C23_Witness ==
  /\ backend = "api"
  /\ \E c \in CallIds :
       /\ Done(c)
       /\ calls[c].res.status = 200
       /\ Len(calls[c].results) = 2
       /\ calls[c].results[1].input = SrcAB
       /\ calls[c].results[2].input = Obj(<<>>)
       /\ Len(logs) >= 2

----------------------------------------------------------------------------
(* Properties of the probes of healthCheck *)

\* the HEAD of the probe got a response: with the abort timer of backend/lib
\* a response that would come after the timeout never arrives
HeadAnswered ==
  \/ hArgs.net[1].kind = "response"
  \/ hFn = "m2_healthCheck" /\ hArgs.net[1].kind = "late"

\* the GET of the probe was issued and got a response
GetAnswered ==
  /\ ~HeadAnswered
  /\ IF hFn = "healthCheck"
       THEN hArgs.net[1].kind = "error" /\ hArgs.net[2].kind = "response"
       ELSE hArgs.net[2].kind \in {"response", "late"}

\* C24: healthCheck issues a HEAD first, and a GET only after the HEAD was
\* rejected, never more than one; when the HEAD gets a response, no GET is
\* issued and that response alone decides healthy and status.
C24_HeadThenAtMostOneGet ==
  Probed =>
    /\ Len(hOpts) \in {1, 2}
    /\ hOpts[1].method = "HEAD"
    /\ Len(hOpts) = 2 => (hOpts[2].method = "GET" /\ ~HeadAnswered)
    /\ HeadAnswered =>
         /\ Len(hOpts) = 1
         /\ Get(hRet, <<"healthy">>) = Bool(IsOk(hArgs.net[1].status))
         /\ Get(hRet, <<"status">>) = Num(hArgs.net[1].status)

C24_Witness ==
  /\ hFn = "healthCheck"
  /\ hArgs.net = <<NetError, Response(200, SrcAB)>>
  /\ Len(hOpts) = 2
  /\ hOpts[2].method = "GET"
  /\ Get(hRet, <<"healthy">>) = Bool(TRUE)

\* no response has arrived when the timeout of the probe elapses, counted
\* from the start of the HEAD
TimeoutFires ==
  \/ hArgs.net[1].kind \in {"hang", "late"}
  \/ hArgs.net[1].kind = "error" /\ hArgs.net[2].kind \in {"hang", "late"}

\* C25: the HEAD and the GET of a probe share one timeout counted from the
\* start of the HEAD: once it has fired the call returns healthy:false, with
\* the latency counted from the start of the HEAD.
C25_OneTimeoutBudget ==
  (Probed /\ TimeoutFires) =>
    /\ Get(hRet, <<"healthy">>) = Bool(FALSE)
    /\ Get(hRet, <<"latency">>) = Num(5000)

\* C29: healthCheck reports healthy:true exactly when a response with a 2xx
\* status was received; a response with another status gives healthy:false
\* with that status and no error, and no response at all gives healthy:false
\* with an error and no status.
C29_HealthyIffTwoHundreds ==
  Probed =>
    LET res == IF HeadAnswered THEN hArgs.net[1] ELSE hArgs.net[2] IN
      IF HeadAnswered \/ GetAnswered
        THEN /\ Get(hRet, <<"healthy">>) = Bool(res.status >= 200 /\ res.status <= 299)
             /\ Get(hRet, <<"status">>) = Num(res.status)
             /\ <<"error">> \notin KeySet(hRet)
        ELSE /\ Get(hRet, <<"healthy">>) = Bool(FALSE)
             /\ <<"error">> \in KeySet(hRet)
             /\ <<"status">> \notin KeySet(hRet)

C29_Witness ==
  /\ hFn = "healthCheck"
  /\ hArgs.net[1] = Response(404, S("missing"))
  /\ Get(hRet, <<"healthy">>) = Bool(FALSE)
  /\ Get(hRet, <<"status">>) = Num(404)
  /\ <<"error">> \notin KeySet(hRet)

----------------------------------------------------------------------------
(* The two forms of a mapping *)

\* the rule list [{sourcePath: path, destField: dest}, ...] that describes
\* the pairs of a keyed mapping {dest: path, ...}, in the same order
AsRuleList(keyed) ==
  Arr([i \in 1..Len(keyed.v) |-> Rule(keyed.v[i][2], Str(keyed.v[i][1]))])

\* C26: a keyed mapping and the rule list describing the same pairs give the
\* same output of transform, for every source.
C26_KeyedEqualsRuleList ==
  /\ (mFn = "transform" /\ mMapping.t = "object")
       => mRet = transform(mSource, AsRuleList(mMapping))
  /\ (mFn = "m2_transform" /\ mMapping.t = "object")
       => mRet = m2_transform(mSource, AsRuleList(mMapping))

----------------------------------------------------------------------------
(* The bound of the in-memory log *)

\* the entries logged by the test calls of this run: those without a number
FreshEntries == SelectSeq(logs, LAMBDA e : "n" \notin DOMAIN e)

\* the test calls that have logged their outcome
LoggedCalls == {c \in CallIds : calls[c].pc = "done" /\ calls[c].res.status = 200}

\* C27: the in-memory log never holds more than 500 entries; it is ordered
\* newest first, and it holds exactly the most recently logged entries: all
\* entries of this run in front, then the newest of the earlier ones, the
\* oldest being the ones dropped.
C27_AtMostNewest500 ==
  backend = "test" =>
    /\ Len(logs) <= 500
    /\ Len(FreshEntries) = Cardinality(LoggedCalls)
    /\ \E before \in {0, 500} :
         LET all == FreshEntries \o LoggedSoFar(before)
         IN logs = SubSeq(all, 1, IF Len(all) > 500 THEN 500 ELSE Len(all))

C27_Witness ==
  /\ backend = "test"
  /\ Len(logs) = 500
  /\ Len(FreshEntries) = 2
  /\ logs[500].n = 3

----------------------------------------------------------------------------
(* Properties of the connection map and of the dashboard's counters *)

\* C28: every connection stored under key k has id = k.
C28_IdIsKey ==
  backend = "store" => \A k \in DOMAIN connections : connections[k].id = k

\* the dashboard calls on connection k that are in flight, and those done
InFlight(k) == {c \in CallIds : calls[c].pc = "wait" /\ calls[c].id = k}

Completed(k) == {c \in CallIds : calls[c].pc = "done" /\ calls[c].id = k}

====
